---- MODULE Spec2Model ----
(***************************************************************************)
(* A model of pyuvdata's FHD reader, FHD.read_fhd (uvdata/fhd.py), as a    *)
(* state machine: one action per block of the method, in program order,    *)
(* plus the background LST worker thread.                                  *)
(*                                                                         *)
(* File names are sequences of character chunks, so that lower() and       *)
(* endswith() are computed and not assumed.  An exception is recorded in   *)
(* exc and stops the method.                                               *)
(***************************************************************************)
EXTENDS Integers, Sequences, FiniteSets, TLC

VARIABLES
    inp,               \* the arguments of read_fhd and the contents of the files
    self,              \* the attributes of the UVData object
    pc,                \* the position of the main path in read_fhd
    idx,               \* the position of `for file in filelist`
    datafiles,         \* dict pol -> file, as the sequence of its items
    params_file, obs_file, flags_file, layout_file, settings_file,
    this_obs,          \* the obs structure the metadata is taken from
    vis_data,          \* dict pol -> visibilities, as the sequence of its items
    fhd_pol_list,
    vis_weights_data,  \* dict pol -> weights, as a function
    pol_list,
    vidx,              \* the position of `for pol, vis in vis_data.items()`
    proc,              \* the LST worker: "none", "running", "finished"
    joined,            \* proc.join() has returned
    filled,            \* the data arrays have been populated
    warns,             \* the warnings emitted, in order
    exc,               \* the exception that ended the call, or None
    call,              \* a call of a function other than read_fhd: its arguments
    ret                \* what that call returned or raised, once it has ended

vars == <<inp, self, pc, idx, datafiles, params_file, obs_file, flags_file,
          layout_file, settings_file, this_obs, vis_data, fhd_pol_list,
          vis_weights_data, pol_list, vidx, proc, joined, filled, warns,
          exc, call, ret>>

fileVars == <<datafiles, params_file, obs_file, flags_file, layout_file,
              settings_file>>
readVars == <<this_obs, vis_data, fhd_pol_list, vis_weights_data, pol_list,
              vidx>>
thrVars == <<proc, joined, filled>>

(* Python's None, for a value that is a sequence (a file name, a message,   *)
(* a dict's items) or an attribute, which holds Some(v) once assigned.     *)
None == <<>>

Some(v) == <<v>>

(***************************************************************************)
(* Strings as sequences of chunks.                                         *)
(***************************************************************************)
LowerTok(t) ==
    CASE t = "A" -> "a"
      [] t = "B" -> "b"
      [] t = "_VIS_" -> "_vis_"
      [] t = "MODEL_" -> "model_"
      [] t = "XX" -> "xx"
      [] t = "YY" -> "yy"
      [] t = "XY" -> "xy"
      [] t = "YX" -> "yx"
      [] t = ".SAV" -> ".sav"
      [] t = "ITRF" -> "itrf"
      [] t = "JD2456528" -> "jd2456528"
      [] t = "I" -> "i"
      [] t = "Q" -> "q"
      [] t = "U" -> "u"
      [] t = "V" -> "v"
      [] t = "E" -> "e"
      [] t = "EAST" -> "east"
      [] t = "NORTH" -> "north"
      [] t = "ARRAY" -> "array"
      [] t = "CENTER" -> "center"
      [] t = "COORDINATE" -> "coordinate"
      [] t = "FRAME" -> "frame"
      [] t = "ANTENNA" -> "antenna"
      [] t = "COORDS" -> "coords"
      [] t = "NAMES" -> "names"
      [] t = "NUMBERS" -> "numbers"
      [] t = "N" -> "n"
      [] t = "GST0" -> "gst0"
      [] t = "REF" -> "ref"
      [] t = "DATE" -> "date"
      [] t = "EARTH" -> "earth"
      [] t = "DEGPD" -> "degpd"
      [] t = "DUT1" -> "dut1"
      [] t = "TIME" -> "time"
      [] t = "SYSTEM" -> "system"
      [] t = "DIAMETERS" -> "diameters"
      [] t = "DIFF" -> "diff"
      [] t = "UTC" -> "utc"
      [] t = "POL" -> "pol"
      [] t = "TYPE" -> "type"
      [] t = "POLA" -> "pola"
      [] t = "BEAM" -> "beam"
      [] t = "FWHM" -> "fwhm"
      [] t = "PCAL" -> "pcal"
      [] t = "TILE" -> "tile"
      [] t = "STAT" -> "stat"
      [] t = "ORIENTATION" -> "orientation"
      [] t = "CAL" -> "cal"
      [] t = "PARAMS" -> "params"
      [] t = "MOUNT" -> "mount"
      [] t = "AXIS" -> "axis"
      [] t = "OFFSET" -> "offset"
      [] t = "POLB" -> "polb"
      [] OTHER -> t

lower(s) == [i \in DOMAIN s |-> LowerTok(s[i])]

UpperTok(t) ==
    CASE t = "utc" -> "UTC"
      [] t = "Utc" -> "UTC"
      [] t = "iat" -> "IAT"
      [] t = "array" -> "ARRAY"
      [] t = "center" -> "CENTER"
      [] t = "coordinate" -> "COORDINATE"
      [] t = "frame" -> "FRAME"
      [] t = "antenna" -> "ANTENNA"
      [] t = "coords" -> "COORDS"
      [] t = "names" -> "NAMES"
      [] t = "numbers" -> "NUMBERS"
      [] t = "n" -> "N"
      [] t = "gst0" -> "GST0"
      [] t = "ref" -> "REF"
      [] t = "date" -> "DATE"
      [] t = "earth" -> "EARTH"
      [] t = "degpd" -> "DEGPD"
      [] t = "dut1" -> "DUT1"
      [] t = "time" -> "TIME"
      [] t = "system" -> "SYSTEM"
      [] t = "diameters" -> "DIAMETERS"
      [] t = "diff" -> "DIFF"
      [] t = "pol" -> "POL"
      [] t = "type" -> "TYPE"
      [] t = "pola" -> "POLA"
      [] t = "beam" -> "BEAM"
      [] t = "fwhm" -> "FWHM"
      [] t = "pcal" -> "PCAL"
      [] t = "tile" -> "TILE"
      [] t = "stat" -> "STAT"
      [] t = "orientation" -> "ORIENTATION"
      [] t = "cal" -> "CAL"
      [] t = "params" -> "PARAMS"
      [] t = "mount" -> "MOUNT"
      [] t = "axis" -> "AXIS"
      [] t = "offset" -> "OFFSET"
      [] t = "polb" -> "POLB"
      [] OTHER -> t

upper(s) == [i \in DOMAIN s |-> UpperTok(s[i])]

(* len(s) of a name in chunks: the characters of its chunks. *)
TokLen(t) ==
    CASE t = "_" -> 1
      [] t = "array" -> 5
      [] t = "center" -> 6
      [] t = "coordinate" -> 10
      [] t = "frame" -> 5
      [] t = "antenna" -> 7
      [] t = "coords" -> 6
      [] t = "names" -> 5
      [] t = "numbers" -> 7
      [] t = "n" -> 1
      [] t = "gst0" -> 4
      [] t = "ref" -> 3
      [] t = "date" -> 4
      [] t = "earth" -> 5
      [] t = "degpd" -> 5
      [] t = "dut1" -> 4
      [] t = "time" -> 4
      [] t = "system" -> 6
      [] t = "diameters" -> 9
      [] t = "diff" -> 4
      [] t = "utc" -> 3
      [] t = "pol" -> 3
      [] t = "type" -> 4
      [] t = "pola" -> 4
      [] t = "beam" -> 4
      [] t = "fwhm" -> 4
      [] t = "pcal" -> 4
      [] t = "tile" -> 4
      [] t = "stat" -> 4
      [] t = "orientation" -> 11
      [] t = "cal" -> 3
      [] t = "params" -> 6
      [] t = "mount" -> 5
      [] t = "axis" -> 4
      [] t = "offset" -> 6
      [] t = "polb" -> 4

RECURSIVE len(_)
len(s) == IF s = <<>> THEN 0 ELSE TokLen(Head(s)) + len(Tail(s))

(* s.replace(old, "") for a one-character old: its chunks are dropped. *)
RECURSIVE replace_with_empty(_, _)
replace_with_empty(s, old) ==
    IF s = <<>> THEN <<>>
    ELSE (IF Head(s) = old THEN <<>> ELSE <<Head(s)>>)
         \o replace_with_empty(Tail(s), old)

(* list.remove(x): the first occurrence is taken out (the code removes a  *)
(* name that is in the list, or tests "x in l" first).                    *)
RECURSIVE remove(_, _)
remove(l, x) ==
    IF l = <<>> THEN <<>>
    ELSE IF Head(l) = x THEN Tail(l) ELSE <<Head(l)>> \o remove(Tail(l), x)

Whitespace == {" ", "\t", "\n"}

RECURSIVE rstrip(_)
rstrip(s) ==
    IF s # <<>> /\ s[Len(s)] \in Whitespace
    THEN rstrip(SubSeq(s, 1, Len(s) - 1)) ELSE s

RECURSIVE lstrip(_)
lstrip(s) ==
    IF s # <<>> /\ s[1] \in Whitespace THEN lstrip(Tail(s)) ELSE s

strip(s) == lstrip(rstrip(s))

startswith(s, prefix) == Len(s) >= 1 /\ s[1] = prefix

endswith(s, suffix) ==
    /\ Len(s) >= Len(suffix)
    /\ SubSeq(s, Len(s) - Len(suffix) + 1, Len(s)) = suffix

lin_pol_order == <<"xx", "yy", "xy", "yx">>

Pols == {lin_pol_order[i] : i \in DOMAIN lin_pol_order}

data_name(use_model) ==
    IF use_model THEN <<"_vis_", "model_">> ELSE <<"_vis_">>

(* The elif chain of the loop over filelist: the role a file name falls in. *)
RoleOfWrongKind(file, use_model) ==
    LET l == lower(file) IN
    CASE endswith(l, <<"_vis_", "xx", ".sav">>) -> "xx"
      [] endswith(l, <<"_vis_", "model_", "xx", ".sav">>) -> "xx"
      [] endswith(l, <<"_vis_", "yy", ".sav">>) -> "yy"
      [] endswith(l, <<"_vis_", "model_", "yy", ".sav">>) -> "yy"
      [] endswith(l, <<"_vis_", "xy", ".sav">>) -> "xy"
      [] endswith(l, <<"_vis_", "model_", "xy", ".sav">>) -> "xy"
      [] endswith(l, <<"_vis_", "yx", ".sav">>) -> "yx"
      [] endswith(l, <<"_vis_", "model_", "yx", ".sav">>) -> "yx"
      [] endswith(l, <<"_params", ".sav">>) -> "params"
      [] endswith(l, <<"_obs", ".sav">>) -> "obs"
      [] endswith(l, <<"_flags", ".sav">>) -> "flags"
      [] endswith(l, <<"_layout", ".sav">>) -> "layout"
      [] endswith(l, <<"_settings", ".txt">>) -> "settings"
      [] OTHER -> "ignored"

RoleOf(file, use_model) ==
    LET l == lower(file)
        d == data_name(use_model)
    IN  IF endswith(l, d \o <<"xx", ".sav">>) THEN "xx"
        ELSE IF endswith(l, d \o <<"yy", ".sav">>) THEN "yy"
        ELSE IF endswith(l, d \o <<"xy", ".sav">>) THEN "xy"
        ELSE IF endswith(l, d \o <<"yx", ".sav">>) THEN "yx"
        ELSE IF endswith(l, <<"_params", ".sav">>) THEN "params"
        ELSE IF endswith(l, <<"_obs", ".sav">>) THEN "obs"
        ELSE IF endswith(l, <<"_flags", ".sav">>) THEN "flags"
        ELSE IF endswith(l, <<"_layout", ".sav">>) THEN "layout"
        ELSE IF endswith(l, <<"_settings", ".txt">>) THEN "settings"
        ELSE "ignored"

Keys(d) == {d[i][1] : i \in DOMAIN d}

(* d[k] = v on a dict: a new key goes last, an old key keeps its place. *)
Put(d, k, v) ==
    IF k \in Keys(d)
    THEN [i \in DOMAIN d |-> IF d[i][1] = k THEN <<k, v>> ELSE d[i]]
    ELSE Append(d, <<k, v>>)

(* The message of the ValueError of a duplicated role. *)
MultipleMsg(role) ==
    IF role \in Pols THEN <<"multiple", role, "datafiles in filelist">>
    ELSE <<"multiple", role, "files in filelist">>

(***************************************************************************)
(* for file in filelist: one pass of the loop body (lines 173-214), on the *)
(* record a of the role variables and the exception.                       *)
(***************************************************************************)
Assigned(a, role) ==
    CASE role \in Pols -> role \in Keys(a.datafiles)
      [] role = "params" -> a.params_file # None
      [] role = "obs" -> a.obs_file # None
      [] role = "flags" -> a.flags_file # None
      [] role = "layout" -> a.layout_file # None
      [] role = "settings" -> a.settings_file # None
      [] OTHER -> FALSE

Assign(a, role, file) ==
    [a EXCEPT
        !.datafiles = IF role \in Pols THEN Put(@, role, file) ELSE @,
        !.params_file = IF role = "params" THEN file ELSE @,
        !.obs_file = IF role = "obs" THEN file ELSE @,
        !.flags_file = IF role = "flags" THEN file ELSE @,
        !.layout_file = IF role = "layout" THEN file ELSE @,
        !.settings_file = IF role = "settings" THEN file ELSE @]

ClassifyStepLastWins(a, file, use_model) ==
    LET role == RoleOf(file, use_model) IN
    IF role = "ignored" THEN a ELSE Assign(a, role, file)

ClassifyStep(a, file, use_model) ==
    LET role == RoleOf(file, use_model) IN
    IF role = "ignored" THEN a
    ELSE IF Assigned(a, role) THEN [a EXCEPT !.exc = MultipleMsg(role)]
    ELSE Assign(a, role, file)

NoRoles ==
    [datafiles |-> <<>>, params_file |-> None, obs_file |-> None,
     flags_file |-> None, layout_file |-> None, settings_file |-> None,
     exc |-> None]

Roles ==
    [datafiles |-> datafiles, params_file |-> params_file, obs_file |-> obs_file,
     flags_file |-> flags_file, layout_file |-> layout_file,
     settings_file |-> settings_file, exc |-> exc]

ClassifyFile ==
    /\ pc = "classify"
    /\ idx <= Len(inp.filelist)
    /\ LET a == ClassifyStep(Roles, inp.filelist[idx], inp.use_model) IN
       /\ datafiles' = a.datafiles
       /\ params_file' = a.params_file
       /\ obs_file' = a.obs_file
       /\ flags_file' = a.flags_file
       /\ layout_file' = a.layout_file
       /\ settings_file' = a.settings_file
       /\ exc' = a.exc
       /\ IF a.exc # None
          THEN pc' = "raised" /\ UNCHANGED idx
          ELSE idx' = idx + 1 /\ UNCHANGED pc
    /\ UNCHANGED <<inp, call, ret, self, readVars, thrVars, warns>>

(***************************************************************************)
(* The required-file checks (lines 216-234): the first failing check       *)
(* raises; a missing layout or settings file only warns.                   *)
(***************************************************************************)
MissingMsgNoFlagsCheck(n_datafiles, read_data, obs, params, flags) ==
    IF n_datafiles < 1 /\ read_data = TRUE
    THEN <<"No data files included in file list and read_data is True.">>
    ELSE IF obs = None /\ read_data = FALSE
    THEN <<"No obs file included in file list and read_data is False.">>
    ELSE IF params = None
    THEN <<"No params file included in file list">>
    ELSE None

MissingMsg(n_datafiles, read_data, obs, params, flags) ==
    IF n_datafiles < 1 /\ read_data = TRUE
    THEN <<"No data files included in file list and read_data is True.">>
    ELSE IF obs = None /\ read_data = FALSE
    THEN <<"No obs file included in file list and read_data is False.">>
    ELSE IF params = None
    THEN <<"No params file included in file list">>
    ELSE IF flags = None
    THEN <<"No flags file included in file list">>
    ELSE None

NoLayoutWarning == <<"No layout file included in file list, antenna_postions will not be defined.">>

NoSettingsWarning == <<"No settings file included in file list">>

MissingWarnings(layout, settings) ==
    (IF layout = None THEN <<NoLayoutWarning>> ELSE <<>>)
    \o (IF settings = None THEN <<NoSettingsWarning>> ELSE <<>>)

CheckRequired ==
    /\ pc = "classify"
    /\ idx > Len(inp.filelist)
    /\ LET msg == MissingMsg(Len(datafiles), inp.read_data, obs_file,
                             params_file, flags_file)
       IN  IF msg # None
           THEN /\ exc' = msg
                /\ pc' = "raised"
                /\ UNCHANGED warns
           ELSE /\ warns' = warns \o MissingWarnings(layout_file, settings_file)
                /\ pc' = "read_obs"
                /\ UNCHANGED exc
    /\ UNCHANGED <<inp, call, ret, self, idx, fileVars, readVars, thrVars>>

(* The obs structure of the first data file, not of the last. *)
ThisObsFirstDataFile(files, read_data) ==
    IF ~read_data THEN inp.obs["obs"] ELSE inp.obs[files[1][1]]

(***************************************************************************)
(* Lines 236-258: the obs structure and Npols.  inp.obs maps "obs" to the  *)
(* obs structure of the obs file and a polarization to the one embedded    *)
(* in that polarization's data file; inp.vis maps a polarization to the    *)
(* visibilities of its data file (vis_ptr, or vis_model_ptr with           *)
(* use_model).                                                             *)
(***************************************************************************)
ThisObs(files, read_data) ==
    IF ~read_data THEN inp.obs["obs"] ELSE inp.obs[files[Len(files)][1]]

ReadObs ==
    /\ pc = "read_obs"
    /\ this_obs' = ThisObs(datafiles, inp.read_data)
    /\ IF ~inp.read_data
       THEN /\ self' = [self EXCEPT !.Npols = Some(this_obs'.N_POL)]
            /\ UNCHANGED vis_data
       ELSE /\ vis_data' = [i \in DOMAIN datafiles |->
                               <<datafiles[i][1], inp.vis[datafiles[i][1]]>>]
            /\ self' = [self EXCEPT !.Npols = Some(Cardinality(Keys(vis_data')))]
    /\ fhd_pol_list' = lower(this_obs'.POL_NAMES)
    /\ pc' = "weights"
    /\ UNCHANGED <<inp, call, ret, idx, fileVars, vis_weights_data, pol_list, vidx,
                   thrVars, warns, exc>>

(***************************************************************************)
(* Lines 260-276: the weights of the flags file, by polarization name.     *)
(***************************************************************************)
WeightsKeyNewFirst(flag_file_dict) ==
    IF "vis_weights" \in DOMAIN flag_file_dict THEN Some("vis_weights")
    ELSE IF "flag_arr" \in DOMAIN flag_file_dict THEN Some("flag_arr")
    ELSE None

WeightsKey(flag_file_dict) ==
    IF "flag_arr" \in DOMAIN flag_file_dict THEN Some("flag_arr")
    ELSE IF "vis_weights" \in DOMAIN flag_file_dict THEN Some("vis_weights")
    ELSE None

NoWeightsKeyMsg == <<"No recognized key for visibility weights in flags_file.">>

MaxOf(S) == CHOOSE m \in S : \A x \in S : x <= m

(* for index, w in enumerate(ws): d[names[index]] = w *)
WeightsByPol(ws, names) ==
    [p \in {names[i] : i \in DOMAIN ws} |->
        ws[MaxOf({i \in DOMAIN ws : names[i] = p})]]

ReadWeights ==
    /\ pc = "weights"
    /\ IF inp.read_data
       THEN LET key == WeightsKey(inp.flag_file_dict) IN
            IF key = None
            THEN /\ exc' = NoWeightsKeyMsg
                 /\ pc' = "raised"
                 /\ UNCHANGED vis_weights_data
            ELSE LET ws == inp.flag_file_dict[key[1]] IN
                 IF Len(ws) > Len(fhd_pol_list)
                 THEN /\ exc' = <<"IndexError">>
                      /\ pc' = "raised"
                      /\ vis_weights_data' =
                             WeightsByPol(SubSeq(ws, 1, Len(fhd_pol_list)),
                                          fhd_pol_list)
                 ELSE /\ vis_weights_data' = WeightsByPol(ws, fhd_pol_list)
                      /\ pc' = "meta"
                      /\ UNCHANGED exc
       ELSE /\ pc' = "meta"
            /\ UNCHANGED <<vis_weights_data, exc>>
    /\ UNCHANGED <<inp, call, ret, self, idx, fileVars, this_obs, vis_data, fhd_pol_list,
                   pol_list, vidx, thrVars, warns>>

(***************************************************************************)
(* Lines 278-342: the axis sizes, time_array expanded from JDATE and       *)
(* BIN_OFFSET, and the names.  Rows are numbered from 0, as in the code.   *)
(***************************************************************************)
NtimesWarning == <<"Ntimes does not match the number of unique times in the data">>

(* the loop without its last slice, which runs to the end of the array *)
TimeOfRowWithoutLastSlice(r, Ntimes, int_times, bin_offset) ==
    IF Ntimes = 1 THEN int_times[1]
    ELSE LET hit == {ii \in 1..(Len(int_times) - 1) :
                        bin_offset[ii] <= r /\ r < bin_offset[ii + 1]}
         IN  IF hit = {} THEN 0 ELSE int_times[MaxOf(hit)]

(* time_array[a:b] = t, for ii in order: a row keeps the last value written *)
TimeOfRow(r, Ntimes, int_times, bin_offset) ==
    IF Ntimes = 1 THEN int_times[1]
    ELSE LET n == Len(int_times)
             hit == {ii \in 1..n :
                        /\ bin_offset[ii] <= r
                        /\ (ii < n => r < bin_offset[ii + 1])}
         IN  IF hit = {} THEN 0 ELSE int_times[MaxOf(hit)]

(* np.isclose(a, b) with its default tolerances (1e-05 and 1e-08), on the  *)
(* integers of the model.                                                  *)
isclose_default(a, b) == a = b

(* Lines 326-337: object_name, from the nominal pointing of the obs         *)
(* structure.                                                              *)
ObjectName(obs, telescope_name) ==
    IF /\ lower(<<telescope_name>>) = <<"mwa">>
       /\ isclose_default(obs.ORIG_PHASERA, 0)
       /\ isclose_default(obs.ORIG_PHASEDEC, -27)
    THEN <<"EoR 0 Field">>
    ELSE <<"Field RA(deg): ", ToString(obs.ORIG_PHASERA), ", Dec:",
           ToString(obs.ORIG_PHASEDEC)>>

SetMeta ==
    /\ pc = "meta"
    /\ LET obs == this_obs
           Ntimes == obs.N_TIME
           Nblts == inp.params_Nblts
           int_times == obs.JDATE
           bin_offset == obs.BIN_OFFSET
       IN  /\ warns' = IF Ntimes # Len(int_times)
                       THEN Append(warns, NtimesWarning) ELSE warns
           /\ self' = [self EXCEPT
                  !.Ntimes = Some(Ntimes),
                  !.Nblts = Some(Nblts),
                  !.Nfreqs = Some(obs.N_FREQ),
                  !.vis_units = Some("JY"),
                  !.time_array = Some([r \in 0..(Nblts - 1) |->
                       TimeOfRow(r, Ntimes, int_times, bin_offset)]),
                  !.telescope_name = Some(obs.INSTRUMENT),
                  !.object_name = Some(ObjectName(obs, obs.INSTRUMENT)),
                  !.instrument = Some(obs.INSTRUMENT)]
    /\ pc' = "layout"
    /\ UNCHANGED <<inp, call, ret, idx, fileVars, readVars, thrVars, exc>>

(***************************************************************************)
(* Numbers are integers in fixed units: an angle in degrees in the obs     *)
(* structure, in radian units after deg2rad, a length in length units.     *)
(***************************************************************************)
Abs(x) == IF x < 0 THEN -x ELSE x

RadUnitsPerDeg == 2

LenUnitsPerRadUnit == 3

deg2rad(d) == d * RadUnitsPerDeg

(* utils.XYZ_from_LatLonAlt and utils.LatLonAlt_from_XYZ: the first is     *)
(* exact, the second rounds, so the two closeness tests can disagree.      *)
XYZ_from_LatLonAlt(lat, lon, alt) ==
    <<lat * LenUnitsPerRadUnit, lon * LenUnitsPerRadUnit, alt>>

LatLonAlt_from_XYZ(xyz) ==
    <<xyz[1] \div LenUnitsPerRadUnit, xyz[2] \div LenUnitsPerRadUnit, xyz[3]>>

(* numpy.isclose and numpy.allclose: |a - b| <= atol + rtol * |b| *)
isclose(a, b, rtol, atol) == Abs(a - b) <= atol + rtol * Abs(b)

allclose(v1, v2, rtol, atol) ==
    \A i \in DOMAIN v1 : isclose(v1[i], v2[i], rtol, atol)

(* self._phase_center_ra.tols and self._telescope_location.tols: (rtol, atol) *)
radian_tols == <<0, 0>>

loc_tols == <<0, 1>>

_latlonalt_close(latlonalt1, latlonalt2) ==
    LET latlon_close == allclose(SubSeq(latlonalt1, 1, 2), SubSeq(latlonalt2, 1, 2),
                                 radian_tols[1], radian_tols[2])
        alt_close == isclose(latlonalt1[3], latlonalt2[3], loc_tols[1], loc_tols[2])
    IN  latlon_close /\ alt_close

_xyz_close(xyz1, xyz2) == allclose(xyz1, xyz2, loc_tols[1], loc_tols[2])

(* telescopes.get_telescope: the registry entry of a name, or None (False) *)
get_telescope(name) ==
    IF name \in DOMAIN inp.known_telescopes
    THEN Some([telescope_location |-> inp.known_telescopes[name].telescope_location,
               telescope_location_lat_lon_alt |->
                   LatLonAlt_from_XYZ(inp.known_telescopes[name].telescope_location),
               antenna_diameters |-> inp.known_telescopes[name].antenna_diameters])
    ELSE None

LocationMismatch == "Telescope location derived from obs lat/lon/alt values does not match the location in the layout file."

UsingObs == " Value from obs lat/lon/alt matches the known_telescopes values, using them."

UsingLayout == " Value from the layout file matches the known_telescopes values, using them."

UsingKnown == " Neither location matches the values in known_telescopes. Defaulting to using the known_telescopes values."

UsingObsUnknown == " Telescope is not in known_telescopes. Defaulting to using the obs derived values."

LocationWarnings ==
    {<<LocationMismatch, UsingObs>>, <<LocationMismatch, UsingLayout>>,
     <<LocationMismatch, UsingKnown>>, <<LocationMismatch, UsingObsUnknown>>}

(***************************************************************************)
(* Lines 352-425: the telescope location with a layout file, and the       *)
(* warning, if any.                                                        *)
(***************************************************************************)
TelescopeLocationLayoutFirst(latitude, longitude, altitude, arr_center, frame, telescope_name) ==
    LET location_latlonalt == XYZ_from_LatLonAlt(latitude, longitude, altitude)
        latlonalt_arr_center == LatLonAlt_from_XYZ(arr_center)
        lla == <<latitude, longitude, altitude>>
        telescope_obj == get_telescope(telescope_name)
    IN  IF frame # <<"itrf">>
        THEN [loc |-> location_latlonalt, warn |-> <<>>]
        ELSE IF \/ _xyz_close(location_latlonalt, arr_center)
                \/ _latlonalt_close(lla, latlonalt_arr_center)
        THEN [loc |-> arr_center, warn |-> <<>>]
        ELSE IF telescope_obj # None
        THEN IF _xyz_close(arr_center, telescope_obj[1].telescope_location)
             THEN [loc |-> arr_center,
                   warn |-> <<<<LocationMismatch, UsingLayout>>>>]
             ELSE IF _latlonalt_close(lla,
                         telescope_obj[1].telescope_location_lat_lon_alt)
             THEN [loc |-> location_latlonalt,
                   warn |-> <<<<LocationMismatch, UsingObs>>>>]
             ELSE [loc |-> telescope_obj[1].telescope_location,
                   warn |-> <<<<LocationMismatch, UsingKnown>>>>]
        ELSE [loc |-> location_latlonalt,
              warn |-> <<<<LocationMismatch, UsingObsUnknown>>>>]

TelescopeLocation(latitude, longitude, altitude, arr_center, frame, telescope_name) ==
    LET location_latlonalt == XYZ_from_LatLonAlt(latitude, longitude, altitude)
        latlonalt_arr_center == LatLonAlt_from_XYZ(arr_center)
        lla == <<latitude, longitude, altitude>>
        telescope_obj == get_telescope(telescope_name)
    IN  IF frame # <<"itrf">>
        THEN [loc |-> location_latlonalt, warn |-> <<>>]
        ELSE IF \/ _xyz_close(location_latlonalt, arr_center)
                \/ _latlonalt_close(lla, latlonalt_arr_center)
        THEN [loc |-> arr_center, warn |-> <<>>]
        ELSE IF telescope_obj # None
        THEN IF _latlonalt_close(lla,
                    telescope_obj[1].telescope_location_lat_lon_alt)
             THEN [loc |-> location_latlonalt,
                   warn |-> <<<<LocationMismatch, UsingObs>>>>]
             ELSE IF _xyz_close(arr_center, telescope_obj[1].telescope_location)
             THEN [loc |-> arr_center,
                   warn |-> <<<<LocationMismatch, UsingLayout>>>>]
             ELSE [loc |-> telescope_obj[1].telescope_location,
                   warn |-> <<<<LocationMismatch, UsingKnown>>>>]
        ELSE [loc |-> location_latlonalt,
              warn |-> <<<<LocationMismatch, UsingObsUnknown>>>>]

(* layout["ref_date"][0] != "": the left side is a bytes object (it is      *)
(* decoded on the next line), and a bytes object never equals a str.       *)
bytes_ne_str(b, str) == TRUE

(***************************************************************************)
(* Lines 466-484: the scalar fields of the layout, as updates of self.     *)
(***************************************************************************)
LayoutScalars(obj, layout) ==
    [obj EXCEPT
        !.gst0 = Some(layout.gst0),
        !.rdate = IF bytes_ne_str(layout.ref_date, <<>>)
                  THEN Some(lower(layout.ref_date)) ELSE obj.rdate,
        !.earth_omega = Some(layout.earth_degpd),
        !.dut1 = Some(layout.dut1),
        \* if "diameters" in layout_fields: self.timesys = ... (once more)
        !.timesys = Some(strip(upper(layout.time_system)))]

(***************************************************************************)
(* Lines 349-513: layout_fields, the lower-cased names of the layout       *)
(* structure, loses the names of the fields that are read into attributes  *)
(* (each of them is in a layout structure), "diameters" if it is there,    *)
(* and the names of layout_fields_ignore; what is left goes to             *)
(* extra_keywords.                                                         *)
(***************************************************************************)
layout_fields_read ==
    <<<<"array", "_", "center">>, <<"coordinate", "_", "frame">>,
      <<"antenna", "_", "coords">>, <<"antenna", "_", "names">>,
      <<"antenna", "_", "numbers">>, <<"n", "_", "antenna">>, <<"gst0">>,
      <<"ref", "_", "date">>, <<"earth", "_", "degpd">>, <<"dut1">>,
      <<"time", "_", "system">>>>

layout_fields_ignore ==
    <<<<"diff", "_", "utc">>, <<"pol", "_", "type">>,
      <<"n", "_", "pol", "_", "cal", "_", "params">>, <<"mount", "_", "type">>,
      <<"axis", "_", "offset">>, <<"pola">>, <<"pola", "_", "orientation">>,
      <<"pola", "_", "cal", "_", "params">>, <<"polb">>,
      <<"polb", "_", "orientation">>, <<"polb", "_", "cal", "_", "params">>,
      <<"beam", "_", "fwhm">>>>

(* layout.dtype.names: the names of the structure, as IDL writes them. *)
dtype_names(layout) ==
    [i \in DOMAIN layout_fields_read |-> upper(layout_fields_read[i])]
    \o (IF layout.diameters # None THEN <<<<"DIAMETERS">>>> ELSE <<>>)
    \o [i \in DOMAIN layout.others |-> layout.others[i][1]]

(* for field in fields: if field in l: l.remove(field) *)
RECURSIVE RemoveEach(_, _)
RemoveEach(l, fields) ==
    IF fields = <<>> THEN l
    ELSE RemoveEach(remove(l, Head(fields)), Tail(fields))

LayoutFields(layout) ==
    LET names == dtype_names(layout)
        layout_fields == [i \in DOMAIN names |-> lower(names[i])]
        left == remove(RemoveEach(layout_fields, layout_fields_read),
                       <<"diameters">>)
    IN  RemoveEach(left, layout_fields_ignore)

(* layout[field][0] of a field that is not read into an attribute *)
FieldValue(layout, field) ==
    LET i == CHOOSE i \in DOMAIN layout.others :
                 lower(layout.others[i][1]) = field
    IN  layout.others[i][2]

KeywordFrom8(field) ==
    upper(IF len(field) >= 8 THEN replace_with_empty(field, "_") ELSE field)

(* Lines 505-513: the key of a field *)
Keyword(field) ==
    upper(IF len(field) > 8 THEN replace_with_empty(field, "_") ELSE field)

RECURSIVE SetKeywords(_, _, _)
SetKeywords(extra_keywords, layout, fields) ==
    IF fields = <<>> THEN extra_keywords
    ELSE SetKeywords(Put(extra_keywords, Keyword(Head(fields)),
                         FieldValue(layout, Head(fields))),
                     layout, Tail(fields))

(***************************************************************************)
(* Lines 340-525: the telescope location and the layout.                   *)
(***************************************************************************)
ReadLayout ==
    /\ pc = "layout"
    /\ LET latitude == deg2rad(this_obs.LAT)
           longitude == deg2rad(this_obs.LON)
           altitude == this_obs.ALT
       IN  IF layout_file # None
           THEN LET layout == inp.layout
                    t == TelescopeLocation(latitude, longitude, altitude,
                             layout.array_center, lower(layout.coordinate_frame),
                             self.telescope_name[1])
                    obj == LayoutScalars(
                               [self EXCEPT !.telescope_location = Some(t.loc)],
                               layout)
                IN  /\ self' = [obj EXCEPT !.extra_keywords =
                                   SetKeywords(obj.extra_keywords, layout,
                                               LayoutFields(layout))]
                    /\ warns' = warns \o t.warn
           ELSE /\ self' = [self EXCEPT !.telescope_location =
                              Some(XYZ_from_LatLonAlt(latitude, longitude, altitude))]
                /\ UNCHANGED warns
    /\ pc' = "telescope_params"
    /\ UNCHANGED <<inp, call, ret, idx, fileVars, readVars, thrVars, exc>>

(***************************************************************************)
(* Lines 526-529: set_telescope_params fills what is still unset from the  *)
(* registry; an unknown telescope is a ValueError, turned into a warning.  *)
(***************************************************************************)
SetTelescopeParams ==
    /\ pc = "telescope_params"
    /\ LET telescope_obj == get_telescope(self.telescope_name[1]) IN
       IF telescope_obj # None
       THEN /\ self' = [self EXCEPT !.antenna_diameters =
                           IF self.antenna_diameters = None
                           THEN telescope_obj[1].antenna_diameters
                           ELSE self.antenna_diameters]
            /\ UNCHANGED warns
       ELSE /\ warns' = Append(warns, <<"Telescope ", self.telescope_name[1],
                                        " is not in known_telescopes.">>)
            /\ UNCHANGED self
    /\ pc' = "start_lsts"
    /\ UNCHANGED <<inp, call, ret, idx, fileVars, readVars, thrVars, exc>>

(***************************************************************************)
(* Line 532 and the worker: set_lsts_from_time_array computes lst_array    *)
(* from time_array and the longitude of telescope_location, at once or in  *)
(* a thread that it starts and returns.                                    *)
(***************************************************************************)
LstArray(obj) ==
    [r \in DOMAIN obj.time_array[1] |->
        obj.time_array[1][r] + LatLonAlt_from_XYZ(obj.telescope_location[1])[2]]

StartLsts ==
    /\ pc = "start_lsts"
    /\ IF inp.background_lsts
       THEN /\ proc' = "running"
            /\ UNCHANGED self
       ELSE /\ self' = [self EXCEPT !.lst_array = Some(LstArray(self))]
            /\ UNCHANGED proc
    /\ pc' = "phase"
    /\ UNCHANGED <<inp, call, ret, idx, fileVars, readVars, joined, filled, warns, exc>>

LstWorker ==
    /\ proc = "running"
    /\ self' = [self EXCEPT !.lst_array = Some(LstArray(self))]
    /\ proc' = "finished"
    /\ UNCHANGED <<inp, call, ret, pc, idx, fileVars, readVars, joined, filled, warns, exc>>

(***************************************************************************)
(* Lines 534-576: the phasing.                                             *)
(***************************************************************************)
PhaseWarning == <<"These visibilities may have been phased improperly -- without changing the uvw locations">>

PhaseCenterNominal(obs) == <<obs.ORIG_PHASERA, obs.ORIG_PHASEDEC>>

(* Lines 543-544: the phase center, (ra, dec) in degrees *)
PhaseCenter(obs) == <<obs.OBSRA, obs.OBSDEC>>

SetPhase ==
    /\ pc = "phase"
    /\ LET obs == this_obs IN
       /\ warns' = IF \/ ~isclose_default(obs.OBSRA, obs.PHASERA)
                      \/ ~isclose_default(obs.OBSDEC, obs.PHASEDEC)
                   THEN Append(warns, PhaseWarning) ELSE warns
       /\ self' = [self EXCEPT
              !.phase_type = Some("phased"),
              !.phase_center_ra_degrees = Some(PhaseCenter(obs)[1]),
              !.phase_center_dec_degrees = Some(PhaseCenter(obs)[2])]
    /\ pc' = "pols"
    /\ UNCHANGED <<inp, call, ret, idx, fileVars, readVars, thrVars, exc>>

(***************************************************************************)
(* Lines 578-591: polarization_array.                                      *)
(***************************************************************************)
IndexOf(seq, x) == CHOOSE i \in DOMAIN seq : seq[i] = x /\ \A j \in 1..(i - 1) : seq[j] # x

(* dict(zip(lin_pol_order, np.arange(5, 9) * -1)) *)
linear_pol_dict(pol) == (IndexOf(lin_pol_order, pol) + 4) * (-1)

RECURSIVE Select(_, _)
Select(seq, keep) ==
    IF seq = <<>> THEN <<>>
    ELSE (IF Head(seq) \in keep THEN <<Head(seq)>> ELSE <<>>)
         \o Select(Tail(seq), keep)

Codes(pols) == [i \in DOMAIN pols |-> linear_pol_dict(pols[i])]

Min(a, b) == IF a < b THEN a ELSE b

PolListFileOrder(data) == Codes([i \in DOMAIN data |-> data[i][1]])

PolList(data) == Codes(Select(lin_pol_order, Keys(data)))

SetPols ==
    /\ pc = "pols"
    /\ IF inp.read_data
       THEN /\ pol_list' = PolList(vis_data)
            /\ self' = [self EXCEPT !.polarization_array = Some(pol_list')]
       ELSE /\ self' = [self EXCEPT !.polarization_array =
                   Some(Codes(SubSeq(lin_pol_order, 1,
                                     Min(self.Npols[1], Len(lin_pol_order)))))]
            /\ UNCHANGED pol_list
    /\ pc' = "history"
    /\ UNCHANGED <<inp, call, ret, idx, fileVars, this_obs, vis_data, fhd_pol_list,
                   vis_weights_data, vidx, thrVars, warns, exc>>

(***************************************************************************)
(* get_fhd_history (lines 18-72).  A line is a sequence of chunks; the     *)
(* positions are those of the code plus one.                               *)
(***************************************************************************)
NoLocs == [main_loc |-> None, command_loc |-> None, obs_loc |-> None,
           user_line |-> None]

RECURSIVE ScanLines(_, _, _)
ScanLines(settings_lines, ind, locs) ==
    IF ind > Len(settings_lines) THEN locs
    ELSE LET line == settings_lines[ind]
             found == [main_loc |-> IF startswith(line, "##MAIN")
                                    THEN Some(ind) ELSE locs.main_loc,
                       command_loc |-> IF startswith(line, "##COMMAND_LINE")
                                       THEN Some(ind) ELSE locs.command_loc,
                       obs_loc |-> IF startswith(line, "##OBS")
                                   THEN Some(ind) ELSE locs.obs_loc,
                       user_line |-> IF startswith(line, "User")
                                     THEN Some(ind) ELSE locs.user_line]
         IN  IF /\ found.main_loc # None
                /\ found.command_loc # None
                /\ found.obs_loc # None
                /\ found.user_line # None
             THEN found
             ELSE ScanLines(settings_lines, ind + 1, found)

Replace(s, old, new) == [i \in DOMAIN s |-> IF s[i] = old THEN new ELSE s[i]]

(* str.split(): the chunks between the whitespace *)
split(s) == SelectSeq(s, LAMBDA t : t \notin Whitespace)

(* None + 1 and settings_lines[None] are TypeErrors, and [1] of a one-word  *)
(* list is an IndexError; the slices come first.                           *)
HistoryError(settings_lines) ==
    LET locs == ScanLines(settings_lines, 1, NoLocs) IN
    IF \/ locs.main_loc = None
       \/ locs.command_loc = None
       \/ locs.user_line = None
    THEN Some("TypeError")
    ELSE IF Len(split(settings_lines[locs.user_line[1]])) < 2
    THEN Some("IndexError")
    ELSE None

HistoryLinesWithMarker(settings_lines) ==
    LET locs == ScanLines(settings_lines, 1, NoLocs)
        n == Len(settings_lines)
        lines == SubSeq(settings_lines, locs.main_loc[1] + 1,
                        IF locs.obs_loc = None THEN n ELSE locs.obs_loc[1] - 1)
        history_lines == <<<<"FHD history", "\n">>>> \o lines
    IN  [ind \in DOMAIN history_lines |->
            Replace(rstrip(history_lines[ind]), "\t", " ")]

(* Lines 61-66: history, as the list of the lines that "\n".join joins *)
HistoryLines(settings_lines) ==
    LET locs == ScanLines(settings_lines, 1, NoLocs)
        n == Len(settings_lines)
        main_lines == SubSeq(settings_lines, locs.main_loc[1] + 1,
                             locs.command_loc[1] - 1)
        command_lines == SubSeq(settings_lines, locs.command_loc[1] + 1,
                                IF locs.obs_loc = None THEN n
                                ELSE locs.obs_loc[1] - 1)
        history_lines == <<<<"FHD history", "\n">>>> \o main_lines \o command_lines
    IN  [ind \in DOMAIN history_lines |->
            Replace(rstrip(history_lines[ind]), "\t", " ")]

(* Line 67: user *)
UserOf(settings_lines) ==
    LET locs == ScanLines(settings_lines, 1, NoLocs)
    IN  split(settings_lines[locs.user_line[1]])[2]

(* The value get_fhd_history returns where it does not raise. *)
get_fhd_history(settings_lines, return_user) ==
    IF return_user
    THEN <<HistoryLines(settings_lines), UserOf(settings_lines)>>
    ELSE HistoryLines(settings_lines)

(***************************************************************************)
(* A call of get_fhd_history on its own: it returns or raises.             *)
(***************************************************************************)
CallGetFhdHistory ==
    /\ call # None
    /\ call[1] = "get_fhd_history"
    /\ ret = None
    /\ LET error == HistoryError(call[2].settings_lines) IN
       ret' = IF error # None
              THEN <<"raised", error[1]>>
              ELSE <<"returned", get_fhd_history(call[2].settings_lines,
                                                 call[2].return_user)>>
    /\ UNCHANGED <<inp, call, self, pc, idx, fileVars, readVars, thrVars, warns,
                   exc>>

(***************************************************************************)
(* UVCal.read_fhd_cal: the counts of its file arguments.  An argument is   *)
(* <<"path", p>>, <<"list", ps>> or, for layout_file and settings_file,    *)
(* <<"none">>; the reading that follows the comparison is left out.        *)
(***************************************************************************)
FileCount(arg) == IF arg[1] = "list" THEN Len(arg[2]) ELSE 1

NumberMismatchMsg(role) ==
    <<"Number of ", role, "_files must match number of cal_files">>

RECURSIVE FirstMismatch(_, _, _)
FirstMismatch(roles, args, n_cal) ==
    IF roles = <<>> THEN None
    ELSE IF /\ args[Head(roles)][1] # "none"
            /\ FileCount(args[Head(roles)]) # n_cal
    THEN Some(Head(roles))
    ELSE FirstMismatch(Tail(roles), args, n_cal)

CalFileRolesSettingsFirst == <<"settings", "layout", "obs">>

CalFileRoles == <<"obs", "layout", "settings">>

CallReadFhdCal ==
    /\ call # None
    /\ call[1] = "read_fhd_cal"
    /\ ret = None
    /\ LET role == FirstMismatch(CalFileRoles, call[2], FileCount(call[2].cal))
       IN  ret' = IF role # None
                  THEN <<"raised", NumberMismatchMsg(role[1])>>
                  ELSE <<"returned", <<>>>>
    /\ UNCHANGED <<inp, call, self, pc, idx, fileVars, readVars, thrVars, warns,
                   exc>>

(***************************************************************************)
(* utils.antnums_to_baseline and utils.baseline_to_antnums: the legacy     *)
(* scheme for a pair of numbers up to 255 when attempt256 asks for it, the *)
(* extended scheme otherwise, and the decoder that tells them apart by     *)
(* 2**16.                                                                  *)
(***************************************************************************)
antnums_to_baseline(ant1, ant2, Nants_telescope, attempt256) ==
    IF attempt256 /\ ant1 <= 255 /\ ant2 <= 255
    THEN 256 * ant1 + ant2
    ELSE 2048 * ant1 + ant2 + 2^16 + 1

baseline_to_antnums_threshold_2_15(baseline, Nants_telescope) ==
    IF baseline > 2^15
    THEN <<(baseline - 2^16 - 1) \div 2048, (baseline - 2^16 - 1) % 2048>>
    ELSE <<baseline \div 256, baseline % 256>>

baseline_to_antnums(baseline, Nants_telescope) ==
    IF baseline > 2^16
    THEN <<(baseline - 2^16 - 1) \div 2048, (baseline - 2^16 - 1) % 2048>>
    ELSE <<baseline \div 256, baseline % 256>>

CallAntnumsToBaseline ==
    /\ call # None
    /\ call[1] = "antnums_to_baseline"
    /\ ret = None
    /\ ret' = <<"returned", antnums_to_baseline(call[2].ant1, call[2].ant2,
                                  call[2].Nants_telescope, call[2].attempt256)>>
    /\ UNCHANGED <<inp, call, self, pc, idx, fileVars, readVars, thrVars, warns,
                   exc>>

(* baseline_to_antnums on the baseline number that was just returned *)
CallBaselineToAntnums ==
    /\ call # None
    /\ call[1] = "antnums_to_baseline"
    /\ ret # None
    /\ call' = <<"baseline_to_antnums",
                 [baseline |-> ret[2], Nants_telescope |-> call[2].Nants_telescope,
                  made_from |-> call[2]]>>
    /\ ret' = <<"returned",
                baseline_to_antnums(ret[2], call[2].Nants_telescope)>>
    /\ UNCHANGED <<inp, self, pc, idx, fileVars, readVars, thrVars, warns, exc>>

(***************************************************************************)
(* utils.baseline_index_flip: the baseline number is decoded, the two      *)
(* antenna numbers change places and the pair is encoded again, by         *)
(* antnums_to_baseline with the attempt256 of its signature (False), since *)
(* baseline_index_flip has no such argument to pass on.                    *)
(***************************************************************************)
baseline_index_flip(baseline, Nants_telescope) ==
    LET ants == baseline_to_antnums(baseline, Nants_telescope)
    IN  antnums_to_baseline(ants[2], ants[1], Nants_telescope, FALSE)

(* baseline_index_flip on the baseline number that was just returned: by   *)
(* antnums_to_baseline, and then by the first baseline_index_flip          *)
CallBaselineIndexFlip ==
    /\ call # None
    /\ ret # None
    /\ \/ call[1] = "antnums_to_baseline"
       \/ call[1] = "baseline_index_flip" /\ "ant1" \in DOMAIN call[2].made_from
    /\ call' = <<"baseline_index_flip",
                 [baseline |-> ret[2], Nants_telescope |-> call[2].Nants_telescope,
                  made_from |-> call[2]]>>
    /\ ret' = <<"returned",
                baseline_index_flip(ret[2], call[2].Nants_telescope)>>
    /\ UNCHANGED <<inp, self, pc, idx, fileVars, readVars, thrVars, warns, exc>>

(***************************************************************************)
(* utils.polstr2num and utils.polnum2str.  A polarization string is the    *)
(* sequence of its characters; a dict is the sequence of its items.        *)
(***************************************************************************)
POL_STR2NUM_DICT ==
    <<<<<<"p", "I">>, 1>>, <<<<"p", "Q">>, 2>>, <<<<"p", "U">>, 3>>,
      <<<<"p", "V">>, 4>>, <<<<"r", "r">>, -1>>, <<<<"l", "l">>, -2>>,
      <<<<"r", "l">>, -3>>, <<<<"l", "r">>, -4>>, <<<<"x", "x">>, -5>>,
      <<<<"y", "y">>, -6>>, <<<<"x", "y">>, -7>>, <<<<"y", "x">>, -8>>>>

POL_NUM2STR_DICT ==
    [i \in DOMAIN POL_STR2NUM_DICT |->
        <<POL_STR2NUM_DICT[i][2], POL_STR2NUM_DICT[i][1]>>]

x_orientation_rep_dict_all_east(x_orientation) ==
    IF lower(x_orientation) \in {<<"east">>, <<"e">>, <<"north">>, <<"n">>}
    THEN Some([x |-> "e", y |-> "n"])
    ELSE None

(* the letters that stand for x and y; None for an orientation that is not *)
(* recognized                                                              *)
x_orientation_rep_dict(x_orientation) ==
    IF lower(x_orientation) \in {<<"east">>, <<"e">>}
    THEN Some([x |-> "e", y |-> "n"])
    ELSE IF lower(x_orientation) \in {<<"north">>, <<"n">>}
    THEN Some([x |-> "n", y |-> "e"])
    ELSE None

(* s.replace("x", rep_dict["x"]).replace("y", rep_dict["y"]) *)
ReplaceXY(str, rep_dict) == Replace(Replace(str, "x", rep_dict.x), "y", rep_dict.y)

NotRecognizedWarning == <<"x_orientation not recognized.">>

(* x_orientation is None, or Some(string) *)
OrientationWarns(x_orientation) ==
    IF x_orientation # None /\ x_orientation_rep_dict(x_orientation[1]) = None
    THEN <<NotRecognizedWarning>> ELSE <<>>

(* d[key] of a dict: the value, or None for a KeyError *)
Lookup(d, key) ==
    IF key \in Keys(d)
    THEN Some(d[CHOOSE i \in DOMAIN d : d[i][1] = key][2]) ELSE None

RECURSIVE PutAll(_, _)
PutAll(d, items) ==
    IF items = <<>> THEN d
    ELSE PutAll(Put(d, Head(items)[1], Head(items)[2]), Tail(items))

polnum2str(num, x_orientation) ==
    LET rep_dict == IF x_orientation = None THEN None
                    ELSE x_orientation_rep_dict(x_orientation[1])
        dict_use == IF rep_dict = None THEN POL_NUM2STR_DICT
                    ELSE [i \in DOMAIN POL_NUM2STR_DICT |->
                            <<POL_NUM2STR_DICT[i][1],
                              ReplaceXY(POL_NUM2STR_DICT[i][2], rep_dict[1])>>]
    IN  Lookup(dict_use, num)

polstr2num(pol, x_orientation) ==
    LET rep_dict == IF x_orientation = None THEN None
                    ELSE x_orientation_rep_dict(x_orientation[1])
        dict_use == IF rep_dict = None THEN POL_STR2NUM_DICT
                    ELSE PutAll(POL_STR2NUM_DICT,
                                [i \in DOMAIN POL_STR2NUM_DICT |->
                                    <<ReplaceXY(POL_STR2NUM_DICT[i][1], rep_dict[1]),
                                      POL_STR2NUM_DICT[i][2]>>])
        poldict == PutAll(<<>>, [i \in DOMAIN dict_use |->
                                   <<lower(dict_use[i][1]), dict_use[i][2]>>])
    IN  Lookup(poldict, lower(pol))

CallPolnum2str ==
    /\ call # None
    /\ call[1] = "polnum2str"
    /\ ret = None
    /\ LET out == polnum2str(call[2].num, call[2].x_orientation) IN
       ret' = IF out = None THEN <<"raised", "KeyError">>
              ELSE <<"returned", out[1]>>
    /\ warns' = warns \o OrientationWarns(call[2].x_orientation)
    /\ UNCHANGED <<inp, call, self, pc, idx, fileVars, readVars, thrVars, exc>>

(* polstr2num on the string that was just returned *)
CallPolstr2num ==
    /\ call # None
    /\ call[1] = "polnum2str"
    /\ ret # None
    /\ ret[1] = "returned"
    /\ call' = <<"polstr2num", [pol |-> ret[2],
                                x_orientation |-> call[2].x_orientation,
                                made_from |-> call[2].num]>>
    /\ LET out == polstr2num(ret[2], call[2].x_orientation) IN
       ret' = IF out = None THEN <<"raised", "KeyError">>
              ELSE <<"returned", out[1]>>
    /\ warns' = warns \o OrientationWarns(call[2].x_orientation)
    /\ UNCHANGED <<inp, self, pc, idx, fileVars, readVars, thrVars, exc>>

(***************************************************************************)
(* utils._adj_list, utils._find_cliques and utils.get_baseline_redundancies*)
(* on vectors of integers.  Indices count from 1; a distance is compared   *)
(* through its square.                                                     *)
(***************************************************************************)
Dist2(a, b) ==
    (a[1] - b[1]) * (a[1] - b[1]) + (a[2] - b[2]) * (a[2] - b[2])
    + (a[3] - b[3]) * (a[3] - b[3])

(* np.linalg.norm(a - b) < tol *)
Within(a, b, tol) == tol > 0 /\ Dist2(a, b) < tol * tol

(* np.array_split(order, n_blocks): the first len % n_blocks pieces hold   *)
(* one element more than the others                                        *)
array_split(order, n_blocks) ==
    LET n == Len(order)
        each == n \div n_blocks
        extra == n % n_blocks
        start(b) == (b - 1) * each + Min(b - 1, extra)
        size(b) == each + (IF b <= extra THEN 1 ELSE 0)
    IN  [b \in 1..n_blocks |-> SubSeq(order, start(b) + 1, start(b) + size(b))]

SeqRange(q) == {q[i] : i \in DOMAIN q}

adj_list_within_blocks(vecs, tol, n_blocks) ==
    LET n == Len(vecs)
        k == IF n_blocks = None THEN 1 ELSE n_blocks[1]
        blocks == array_split([i \in 1..n |-> i], k)
    IN  [i \in 1..n |->
            {i} \cup {j \in 1..n :
                        /\ \E b \in 1..k :
                              i \in SeqRange(blocks[b]) /\ j \in SeqRange(blocks[b])
                        /\ Within(vecs[i], vecs[j], tol)}]

(* Each vector starts with itself; the distances are taken block by block, *)
(* for every pair of blocks.  n_blocks is None or Some(number); the        *)
(* default is one block for lists as short as these.                       *)
_adj_list(vecs, tol, n_blocks) ==
    LET n == Len(vecs)
        k == IF n_blocks = None THEN 1 ELSE n_blocks[1]
        blocks == array_split([i \in 1..n |-> i], k)
    IN  [i \in 1..n |->
            {i} \cup {j \in 1..n :
                        /\ \E b1 \in 1..k : \E b2 \in b1..k :
                              \/ /\ i \in SeqRange(blocks[b1])
                                 /\ j \in SeqRange(blocks[b2])
                              \/ /\ j \in SeqRange(blocks[b1])
                                 /\ i \in SeqRange(blocks[b2])
                        /\ Within(vecs[i], vecs[j], tol)}]

Call_adj_list ==
    /\ call # None
    /\ call[1] = "_adj_list"
    /\ ret = None
    /\ ret' = <<"returned",
                _adj_list(call[2].vecs, call[2].tol, call[2].n_blocks)>>
    /\ UNCHANGED <<inp, call, self, pc, idx, fileVars, readVars, thrVars, warns,
                   exc>>

(* the distinct adjacency sets; under strict, None where two of them share *)
(* a member ("Non-isolated cliques found in graph.")                       *)
_find_cliques(adj, strict) ==
    LET cliques == {adj[i] : i \in DOMAIN adj} IN
    IF strict /\ \E A \in cliques, B \in cliques : A # B /\ A \cap B # {}
    THEN None ELSE Some(cliques)

ConjugatedComplement(bv, tol) ==
    ~(\/ bv[1] > tol
      \/ isclose(bv[1], 0, 0, tol) /\ bv[2] > tol
      \/ isclose(bv[1], 0, 0, tol) /\ isclose(bv[2], 0, 0, tol) /\ bv[3] > tol)

(* whether a baseline vector is flipped *)
Conjugated(bv, tol) ==
    LET uneg == bv[1] < -tol
        uzer == isclose(bv[1], 0, 0, tol)
        vneg == bv[2] < -tol
        vzer == isclose(bv[2], 0, 0, tol)
        wneg == bv[3] < -tol
    IN  uneg \/ (uzer /\ vneg) \/ (uzer /\ vzer /\ wneg)

FallingIntoMultipleMsg ==
    <<"Some baselines are falling into multiple redundant groups. ",
      "Lower the tolerance to resolve ambiguity.">>

(* Returns the groups, as sets of baseline numbers, and with conjugates    *)
(* the numbers of the flipped baselines, in order; the centers and lengths *)
(* of the groups, means of floats, are left out.  None for the ValueError. *)
get_baseline_redundancies(baselines, baseline_vecs, tol, with_conjugates) ==
    LET conjugates == [i \in DOMAIN baseline_vecs |->
                          with_conjugates /\ Conjugated(baseline_vecs[i], tol)]
        flipped == [i \in DOMAIN baseline_vecs |->
                       IF conjugates[i]
                       THEN [c \in 1..3 |-> (-1) * baseline_vecs[i][c]]
                       ELSE baseline_vecs[i]]
        bl_gps == _find_cliques(_adj_list(flipped, tol, None), TRUE)
    IN  IF bl_gps = None THEN None
        ELSE Some([bl_gps |-> {{baselines[i] : i \in g} : g \in bl_gps[1]},
                   conjugates |->
                       IF with_conjugates
                       THEN Some(SelectSeq(baselines,
                                LAMBDA b : \E i \in DOMAIN baselines :
                                              baselines[i] = b /\ conjugates[i]))
                       ELSE None])

CallGetBaselineRedundancies ==
    /\ call # None
    /\ call[1] = "get_baseline_redundancies"
    /\ ret = None
    /\ LET out == get_baseline_redundancies(call[2].baselines,
                      call[2].baseline_vecs, call[2].tol, call[2].with_conjugates)
       IN  ret' = IF out = None THEN <<"raised", FallingIntoMultipleMsg>>
                  ELSE <<"returned", out[1]>>
    /\ UNCHANGED <<inp, call, self, pc, idx, fileVars, readVars, thrVars, warns,
                   exc>>

pyuvdata_version_str == <<"  Read/written with pyuvdata version: ">>

(* utils._check_history_version: the version line is in the history *)
_check_history_version(history, version_string) ==
    \E i \in DOMAIN history : history[i] = version_string

SetHistory ==
    /\ pc = "history"
    /\ IF settings_file # None /\ HistoryError(inp.settings_lines) # None
       THEN /\ exc' = HistoryError(inp.settings_lines)
            /\ pc' = "raised"
            /\ UNCHANGED self
       ELSE LET h == IF settings_file # None
                     THEN get_fhd_history(inp.settings_lines, FALSE) ELSE <<>>
            IN  /\ self' = [self EXCEPT !.history =
                       Some(IF ~_check_history_version(h, pyuvdata_version_str)
                            THEN Append(h, pyuvdata_version_str) ELSE h)]
                /\ pc' = "data"
                /\ UNCHANGED exc
    /\ UNCHANGED <<inp, call, ret, idx, fileVars, readVars, thrVars, warns>>

(***************************************************************************)
(* Lines 602-622: the data arrays.  An array of shape (Nblts, 1, Nfreqs,   *)
(* Npols) is a function from the polarization index to a function of       *)
(* (blt, frequency); a complex number is <<re, im>>.                       *)
(***************************************************************************)
Index(Nblts, Nfreqs) == (0..(Nblts - 1)) \X (0..(Nfreqs - 1))

conj(z) == <<z[1], -z[2]>>

FlagOfStrict(w) == w < 0

FlagOf(w) == w <= 0

NsampleOf(w) == Abs(w)

Zeros(obj, zero) ==
    [i \in 0..(obj.Npols[1] - 1) |->
        [x \in Index(obj.Nblts[1], obj.Nfreqs[1]) |-> zero]]

AllocData ==
    /\ pc = "data"
    /\ IF inp.read_data
       THEN /\ self' = [self EXCEPT
                   !.data_array = Some(Zeros(self, <<0, 0>>)),
                   !.nsample_array = Some(Zeros(self, 0)),
                   !.flag_array = Some(Zeros(self, FALSE))]
            /\ vidx' = 1
            /\ pc' = "fill"
            /\ UNCHANGED filled
       ELSE /\ pc' = "join"
            /\ UNCHANGED <<self, vidx, filled>>
    /\ UNCHANGED <<inp, call, ret, idx, fileVars, this_obs, vis_data, fhd_pol_list,
                   vis_weights_data, pol_list, proc, joined, warns, exc>>

(* One pass of `for pol, vis in vis_data.items()`; vis_weights_data[pol]   *)
(* is a KeyError, after the assignment of data_array, for a polarization   *)
(* the flags file has no entry for.                                        *)
FillPol ==
    /\ pc = "fill"
    /\ IF vidx > Len(vis_data)
       THEN /\ filled' = TRUE
            /\ pc' = "join"
            /\ UNCHANGED <<self, vidx, exc>>
       ELSE LET pol == vis_data[vidx][1]
                vis == vis_data[vidx][2]
                pol_i == IndexOf(pol_list, linear_pol_dict(pol)) - 1
                data == [self.data_array[1] EXCEPT
                            ![pol_i] = [x \in DOMAIN vis |-> conj(vis[x])]]
            IN  IF pol \notin DOMAIN vis_weights_data
                THEN /\ self' = [self EXCEPT !.data_array = Some(data)]
                     /\ exc' = <<"KeyError", pol>>
                     /\ pc' = "raised"
                     /\ UNCHANGED <<vidx, filled>>
                ELSE LET w == vis_weights_data[pol] IN
                     /\ self' = [self EXCEPT
                            !.data_array = Some(data),
                            !.flag_array = Some([self.flag_array[1] EXCEPT
                                ![pol_i] = [x \in DOMAIN w |-> FlagOf(w[x])]]),
                            !.nsample_array = Some([self.nsample_array[1] EXCEPT
                                ![pol_i] = [x \in DOMAIN w |-> NsampleOf(w[x])]])]
                     /\ vidx' = vidx + 1
                     /\ UNCHANGED <<pc, filled, exc>>
    /\ UNCHANGED <<inp, call, ret, idx, fileVars, this_obs, vis_data, fhd_pol_list,
                   vis_weights_data, pol_list, proc, joined, warns>>

(* The return without the join. *)
JoinSkipped ==
    /\ pc = "join"
    /\ pc' = "check"
    /\ UNCHANGED <<inp, call, ret, self, idx, fileVars, readVars, thrVars, warns, exc>>

(***************************************************************************)
(* Lines 624-626: proc.join() returns once the worker has finished.        *)
(***************************************************************************)
Join ==
    /\ pc = "join"
    /\ IF proc # "none"
       THEN /\ proc = "finished"
            /\ joined' = TRUE
       ELSE UNCHANGED joined
    /\ pc' = "check"
    /\ UNCHANGED <<inp, call, ret, self, idx, fileVars, readVars, proc, filled, warns, exc>>

(* check() and the return from the place of the join as well. *)
CheckBeforeJoin ==
    /\ pc \in {"join", "check"}
    /\ pc' = "done"
    /\ UNCHANGED <<inp, call, ret, self, idx, fileVars, readVars, thrVars, warns, exc>>

(***************************************************************************)
(* Lines 628-634: check(), then the return.                                *)
(***************************************************************************)
Check ==
    /\ pc = "check"
    /\ pc' = "done"
    /\ UNCHANGED <<inp, call, ret, self, idx, fileVars, readVars, thrVars, warns, exc>>

Next ==
    \/ ClassifyFile
    \/ CheckRequired
    \/ ReadObs
    \/ ReadWeights
    \/ SetMeta
    \/ ReadLayout
    \/ SetTelescopeParams
    \/ StartLsts
    \/ LstWorker
    \/ SetPhase
    \/ SetPols
    \/ SetHistory
    \/ AllocData
    \/ FillPol
    \/ Join
    \/ Check

(***************************************************************************)
(* utils.uvcalibrate.  A complex number is <<re, im, den>>: the value      *)
(* (re + im j) / den in lowest terms, den above 0; den 0 is the nan that   *)
(* numpy gives for a division by zero.  A UVData object carries one entry  *)
(* of ant_1_array, ant_2_array and time_array per baseline-time, and       *)
(* data_array[blt][freq][pol]; a UVCal object carries                      *)
(* gain_array[ant][freq][time][jones], the antennas in ant_array order.    *)
(***************************************************************************)
RECURSIVE gcd(_, _)
gcd(a, b) == IF b = 0 THEN a ELSE gcd(b, a % b)

nan == <<0, 0, 0>>

Reduced(z) ==
    LET g == gcd(gcd(Abs(z[1]), Abs(z[2])), z[3])
    IN  <<z[1] \div g, z[2] \div g, z[3] \div g>>

np_conj(z) == <<z[1], -z[2], z[3]>>

cmul(x, y) ==
    IF x[3] = 0 \/ y[3] = 0
    THEN nan
    ELSE Reduced(<<x[1] * y[1] - x[2] * y[2], x[1] * y[2] + x[2] * y[1],
                   x[3] * y[3]>>)

cdiv(x, y) ==
    IF x[3] = 0 \/ y[3] = 0 \/ (y[1] = 0 /\ y[2] = 0)
    THEN nan
    ELSE Reduced(<<(x[1] * y[1] + x[2] * y[2]) * y[3],
                   (x[2] * y[1] - x[1] * y[2]) * y[3],
                   x[3] * (y[1] * y[1] + y[2] * y[2])>>)

(* the Jones terms of the two antennas of a visibility polarization *)
FeedPols(pol) ==
    CASE pol = -5 -> <<-5, -5>>
      [] pol = -6 -> <<-6, -6>>
      [] pol = -7 -> <<-5, -6>>
      [] pol = -8 -> <<-6, -5>>

FewerTimesMsg ==
    <<"The uvcal object has more than one time but fewer than the number of ",
      "unique times on the uvdata object.">>

DtermPolsMsg == <<"Cannot apply D-term calibration without -7 or -8">>

DtermNotImplementedMsg == <<"D-term calibration is not yet implemented.">>

AllNamesMissingMsg ==
    <<"All antenna names with data on UVData are missing ",
      "on UVCal. They do all have matching antenna numbers on ",
      "UVCal. Currently the data will be calibrated using the ",
      "matching antenna number, but that will be deprecated in ",
      "version 2.2 and this will become an error.">>

AllNamesFlaggedMsg ==
    <<"All antenna names with data on UVData are missing ",
      "on UVCal. Since ant_check is False, calibration will ",
      "proceed but all data will be flagged.">>

MissingAntsMsg(missing_ant_names, flag_missing) ==
    IF flag_missing
    THEN <<"Antennas ", missing_ant_names, " have data on UVData but ",
           "are missing on UVCal. Currently calibration will ",
           "proceed and since flag_missing is True, the data ",
           "for these antennas will be flagged. This will ",
           "become an error in version 2.2, to continue ",
           "calibration and flag missing antennas in the ",
           "future, set ant_check=False.">>
    ELSE <<"Antennas ", missing_ant_names, " have data on UVData but ",
           "are missing on UVCal. Currently calibration will ",
           "proceed and since flag_missing is False, the data ",
           "for these antennas will not be calibrated or ",
           "flagged. This will become an error in version 2.2, ",
           "to continue calibration and flag missing ",
           "antennas in the future, set ant_check=False.">>

MissingAntsFlaggedMsg(missing_ant_names) ==
    <<"Antennas ", missing_ant_names, " have data on UVData but are missing ",
      "on UVCal. Since ant_check is False, calibration will ",
      "proceed and the data for these antennas will be flagged.">>

ExistsOnUVDataMsg(kind, value) ==
    <<kind, value, " exists on UVData but not on UVCal. ",
      "This will become an error in version 2.2">>

(* a warning is <<category, message>> *)
Deprecation(msg) == <<"DeprecationWarning", msg>>

DataAnts(uvdata) == SeqRange(uvdata.ant_1_array) \cup SeqRange(uvdata.ant_2_array)

NameOf(uvdata, ant) == uvdata.antenna_names[IndexOf(uvdata.antenna_numbers, ant)]

(* the antennas with data whose names uvcal does not have *)
NameMissingAnts(uvdata, uvcal) ==
    {a \in DataAnts(uvdata) : NameOf(uvdata, a) \notin SeqRange(uvcal.antenna_names)}

(* an antenna is matched by name; with ant_check by number when the name is *)
(* not on uvcal                                                             *)
Found(uvdata, uvcal, ant, ant_check) ==
    \/ ant \notin NameMissingAnts(uvdata, uvcal)
    \/ /\ ant_check
       /\ ant \in SeqRange(uvcal.ant_array)

(* the antennas with data that uvcal does not have *)
MissingAnts(uvdata, uvcal, ant_check) ==
    {a \in DataAnts(uvdata) : ~Found(uvdata, uvcal, a, ant_check)}

(* the antennas with data that uvcal has by number only *)
NumberOnlyAnts(uvdata, uvcal) ==
    {a \in NameMissingAnts(uvdata, uvcal) : a \in SeqRange(uvcal.ant_array)}

NamesOf(uvdata, ants) == {NameOf(uvdata, a) : a \in ants}

AntennaWarnings(uvdata, uvcal, flag_missing, ant_check) ==
    IF NameMissingAnts(uvdata, uvcal) = {}
    THEN {}
    ELSE IF NumberOnlyAnts(uvdata, uvcal) = DataAnts(uvdata)
    THEN IF ant_check
         THEN {Deprecation(AllNamesMissingMsg)}
         ELSE {<<"UserWarning", AllNamesFlaggedMsg>>}
    ELSE IF ~ant_check
    THEN {<<"UserWarning",
            MissingAntsFlaggedMsg(NamesOf(uvdata, NameMissingAnts(uvdata, uvcal)))>>}
    ELSE (IF NumberOnlyAnts(uvdata, uvcal) = {}
          THEN {}
          ELSE {Deprecation(<<"Antenna names missing on UVCal, matched by number",
                              NamesOf(uvdata, NumberOnlyAnts(uvdata, uvcal))>>)})
         \cup
         (IF MissingAnts(uvdata, uvcal, ant_check) = {}
          THEN {}
          ELSE {Deprecation(MissingAntsMsg(
                    NamesOf(uvdata, MissingAnts(uvdata, uvcal, ant_check)),
                    flag_missing))})

(* one calibration time given to every time of uvdata *)
TimeBroadcast(uvdata, uvcal) ==
    /\ Cardinality(SeqRange(uvcal.time_array)) = 1
    /\ Cardinality(SeqRange(uvdata.time_array)) > 1

TimeIndex(uvdata, uvcal, blt) ==
    IF TimeBroadcast(uvdata, uvcal)
    THEN Some(1)
    ELSE IF uvdata.time_array[blt] \in SeqRange(uvcal.time_array)
    THEN Some(IndexOf(uvcal.time_array, uvdata.time_array[blt]))
    ELSE None

TimeWarnings(uvdata, uvcal) ==
    IF TimeBroadcast(uvdata, uvcal)
    THEN IF /\ uvcal.time_range # None
            /\ \E t \in SeqRange(uvdata.time_array) :
                   t < uvcal.time_range[1] \/ t > uvcal.time_range[2]
         THEN {Deprecation(<<"Times do not match between UVData and UVCal. ",
                             "This will become an error in version 2.2">>)}
         ELSE {}
    ELSE {Deprecation(ExistsOnUVDataMsg("Time ", t)) :
              t \in SeqRange(uvdata.time_array) \ SeqRange(uvcal.time_array)}

FreqWarnings(uvdata, uvcal) ==
    {Deprecation(ExistsOnUVDataMsg("Frequency ", f)) :
         f \in SeqRange(uvdata.freq_array) \ SeqRange(uvcal.freq_array)}

DataFeedPols(uvdata) ==
    UNION {SeqRange(FeedPols(uvdata.polarization_array[p])) :
               p \in DOMAIN uvdata.polarization_array}

PolWarnings(uvdata, uvcal) ==
    {Deprecation(ExistsOnUVDataMsg("Feed polarization ", p)) :
         p \in DataFeedPols(uvdata) \ SeqRange(uvcal.jones_array)}

(* whether data_array[blt][freq][pol] has a gain on both of its antennas *)
HasGains(uvdata, uvcal, ant_check, blt, freq, pol) ==
    /\ Found(uvdata, uvcal, uvdata.ant_1_array[blt], ant_check)
    /\ Found(uvdata, uvcal, uvdata.ant_2_array[blt], ant_check)
    /\ TimeIndex(uvdata, uvcal, blt) # None
    /\ uvdata.freq_array[freq] \in SeqRange(uvcal.freq_array)
    /\ SeqRange(FeedPols(uvdata.polarization_array[pol]))
           \subseteq SeqRange(uvcal.jones_array)

(* where uvcal keeps an antenna of uvdata *)
AntIndex(uvdata, uvcal, ant) ==
    IF ant \notin NameMissingAnts(uvdata, uvcal)
    THEN IndexOf(uvcal.antenna_names, NameOf(uvdata, ant))
    ELSE IndexOf(uvcal.ant_array, ant)

(* an entry of one of uvcal's arrays for one side (1 or 2) of a baseline *)
GainEntry(array, uvdata, uvcal, blt, freq, pol, side) ==
    LET ant == IF side = 1 THEN uvdata.ant_1_array[blt] ELSE uvdata.ant_2_array[blt]
    IN  array[AntIndex(uvdata, uvcal, ant)]
             [IndexOf(uvcal.freq_array, uvdata.freq_array[freq])]
             [TimeIndex(uvdata, uvcal, blt)[1]]
             [IndexOf(uvcal.jones_array,
                      FeedPols(uvdata.polarization_array[pol])[side])]

(* gain(ant1) * conj(gain(ant2)) *)
GainProduct(uvdata, uvcal, blt, freq, pol) ==
    cmul(GainEntry(uvcal.gain_array, uvdata, uvcal, blt, freq, pol, 1),
         np_conj(GainEntry(uvcal.gain_array, uvdata, uvcal, blt, freq, pol, 2)))

GainMaskAntenna1Only(uvdata, uvcal, blt, freq, pol) ==
    \/ GainEntry(uvcal.flag_array, uvdata, uvcal, blt, freq, pol, 1)
    \/ GainProduct(uvdata, uvcal, blt, freq, pol) = <<0, 0, 1>>

(* with prop_flags, a visibility whose gain is flagged on either antenna,  *)
(* or is 0, is flagged and keeps its value                                 *)
GainMask(uvdata, uvcal, blt, freq, pol) ==
    \/ GainEntry(uvcal.flag_array, uvdata, uvcal, blt, freq, pol, 1)
    \/ GainEntry(uvcal.flag_array, uvdata, uvcal, blt, freq, pol, 2)
    \/ GainProduct(uvdata, uvcal, blt, freq, pol) = <<0, 0, 1>>

MultGainsSameWhenUndone(gain_convention, undo) == gain_convention = "multiply"

(* "multiply" multiplies and "divide" divides; undo does the inverse *)
MultGains(gain_convention, undo) == (gain_convention = "multiply") # undo

Calibrated(uvdata, uvcal, prop_flags, undo, ant_check) ==
    [blt \in DOMAIN uvdata.data_array |->
        [freq \in DOMAIN uvdata.data_array[blt] |->
            [pol \in DOMAIN uvdata.data_array[blt][freq] |->
                IF ~HasGains(uvdata, uvcal, ant_check, blt, freq, pol)
                THEN uvdata.data_array[blt][freq][pol]
                ELSE IF prop_flags /\ GainMask(uvdata, uvcal, blt, freq, pol)
                THEN uvdata.data_array[blt][freq][pol]
                ELSE IF MultGains(uvcal.gain_convention, undo)
                THEN cmul(uvdata.data_array[blt][freq][pol],
                          GainProduct(uvdata, uvcal, blt, freq, pol))
                ELSE cdiv(uvdata.data_array[blt][freq][pol],
                          GainProduct(uvdata, uvcal, blt, freq, pol))]]]

FlagMissingOnly(flag_missing, ant_check) == flag_missing

(* "since flag_missing is True, the data for these antennas will be        *)
(* flagged"; "Since ant_check is False ... the data for these antennas     *)
(* will be flagged"                                                        *)
MissingAreFlagged(flag_missing, ant_check) == flag_missing \/ ~ant_check

Flagged(uvdata, uvcal, prop_flags, flag_missing, ant_check) ==
    [blt \in DOMAIN uvdata.flag_array |->
        [freq \in DOMAIN uvdata.flag_array[blt] |->
            [pol \in DOMAIN uvdata.flag_array[blt][freq] |->
                \/ uvdata.flag_array[blt][freq][pol]
                \/ /\ MissingAreFlagged(flag_missing, ant_check)
                   /\ {uvdata.ant_1_array[blt], uvdata.ant_2_array[blt]}
                          \cap MissingAnts(uvdata, uvcal, ant_check) # {}
                \/ /\ prop_flags
                   /\ HasGains(uvdata, uvcal, ant_check, blt, freq, pol)
                   /\ GainMask(uvdata, uvcal, blt, freq, pol)]]]

UvcalibrateError(uvdata, uvcal, Dterm_cal) ==
    IF /\ Cardinality(SeqRange(uvcal.time_array)) > 1
       /\ Cardinality(SeqRange(uvcal.time_array))
              < Cardinality(SeqRange(uvdata.time_array))
    THEN Some(FewerTimesMsg)
    ELSE IF Dterm_cal
    THEN IF SeqRange(uvdata.polarization_array) \cap {-7, -8} = {}
         THEN Some(DtermPolsMsg)
         ELSE Some(DtermNotImplementedMsg)
    ELSE None

uvcalibrate(uvdata, uvcal, prop_flags, flag_missing, Dterm_cal, undo, ant_check) ==
    IF UvcalibrateError(uvdata, uvcal, Dterm_cal) # None
    THEN <<"raised", UvcalibrateError(uvdata, uvcal, Dterm_cal)[1]>>
    ELSE <<"returned",
           [uvdata |->
                [uvdata EXCEPT
                    !.data_array = Calibrated(uvdata, uvcal, prop_flags, undo,
                                              ant_check),
                    !.flag_array = Flagged(uvdata, uvcal, prop_flags,
                                           flag_missing, ant_check),
                    !.vis_units = IF undo
                                  THEN "UNCALIB"
                                  ELSE IF uvcal.gain_scale # None
                                  THEN uvcal.gain_scale[1]
                                  ELSE @],
            warnings |-> AntennaWarnings(uvdata, uvcal, flag_missing, ant_check)
                             \cup TimeWarnings(uvdata, uvcal)
                             \cup FreqWarnings(uvdata, uvcal)
                             \cup PolWarnings(uvdata, uvcal)]>>

UvcalibrateOf(c) ==
    uvcalibrate(c.uvdata, c.uvcal, c.prop_flags, c.flag_missing, c.Dterm_cal,
                c.undo, c.ant_check)

(* inplace=True changes the caller's object, inplace=False a copy of it;   *)
(* made_from keeps the object as it was before the call                    *)
CallUvcalibrate ==
    /\ call # None
    /\ call[1] = "uvcalibrate"
    /\ ret = None
    /\ ret' = UvcalibrateOf(call[2])
    /\ call' = <<"uvcalibrate",
                 [call[2] EXCEPT
                     !.uvdata = IF call[2].inplace /\ ret'[1] = "returned"
                                THEN ret'[2].uvdata
                                ELSE @,
                     !.made_from = Some(call[2].uvdata)]>>
    /\ UNCHANGED <<inp, self, pc, idx, fileVars, readVars, thrVars, warns, exc>>

(* uvcalibrate again on the calibrated object, with undo=True *)
CallUvcalibrateUndo ==
    /\ call # None
    /\ call[1] = "uvcalibrate"
    /\ ret # None
    /\ ret[1] = "returned"
    /\ ~call[2].undo
    /\ call' = <<"uvcalibrate",
                 [call[2] EXCEPT !.uvdata = ret[2].uvdata, !.undo = TRUE]>>
    /\ ret' = UvcalibrateOf(call'[2])
    /\ UNCHANGED <<inp, self, pc, idx, fileVars, readVars, thrVars, warns, exc>>

(***************************************************************************)
(* utils.apply_uvflag.  A UVData object carries one entry of               *)
(* baseline_array and time_array per baseline-time and                     *)
(* flag_array[blt][freq][pol].  A UVFlag object of type "baseline" does    *)
(* the same; one of type "waterfall" carries its times in time_array and   *)
(* flag_array[time][freq][pol].                                            *)
(***************************************************************************)
FlagModeMsg == <<"UVFlag must be flag mode">>

MismatchedFrequencyMsg == <<"UVFlag and UVData have mismatched frequency arrays">>

MismatchedTimeMsg == <<"UVFlag and UVData have mismatched time arrays">>

PolarizationsMsg == <<"Input uvf and uvd polarizations do not match">>

ApplyUvflagError(uvd, uvf, force_pol) ==
    IF uvf.mode # "flag"
    THEN Some(FlagModeMsg)
    ELSE IF Len(uvf.freq_array) # 1 /\ uvf.freq_array # uvd.freq_array
    THEN Some(MismatchedFrequencyMsg)
    ELSE IF /\ Cardinality(SeqRange(uvf.time_array)) # 1
            /\ SeqRange(uvf.time_array) # SeqRange(uvd.time_array)
    THEN Some(MismatchedTimeMsg)
    ELSE IF uvf.polarization_array # uvd.polarization_array /\ ~force_pol
    THEN Some(PolarizationsMsg)
    ELSE None

SliceFirstOnly(n, i) == IF n = 1 /\ i # 1 THEN None ELSE Some(i)

(* the index on an axis of the mask for index i of the data: an axis of    *)
(* one entry is given to every index                                       *)
Slice(n, i) == IF n = 1 THEN Some(1) ELSE Some(i)

(* the rows of the mask for a baseline-time of the data *)
MaskRows(uvd, uvf, blt) ==
    IF uvf.type = "waterfall"
    THEN {k \in DOMAIN uvf.time_array :
             \/ uvf.time_array[k] = uvd.time_array[blt]
             \/ Len(uvf.time_array) = 1}
    ELSE {k \in DOMAIN uvf.baseline_array :
             /\ uvf.baseline_array[k] = uvd.baseline_array[blt]
             /\ \/ uvf.time_array[k] = uvd.time_array[blt]
                \/ Cardinality(SeqRange(uvf.time_array)) = 1}

MaskFlag(uvd, uvf, blt, freq, pol) ==
    /\ Slice(Len(uvf.freq_array), freq) # None
    /\ \E k \in MaskRows(uvd, uvf, blt) :
           uvf.flag_array[k][Slice(Len(uvf.freq_array), freq)[1]]
                            [IF uvf.polarization_array = uvd.polarization_array
                             THEN pol
                             ELSE 1]

(* a baseline of the data that a mask with a baseline axis does not have *)
AbsentFromMask(uvd, uvf, blt) ==
    /\ uvf.type = "baseline"
    /\ uvd.baseline_array[blt] \notin SeqRange(uvf.baseline_array)

KeptFlagAlways(flag, unflag_first) == flag

(* unflag_first clears the flags of the data before the mask is applied *)
KeptFlag(flag, unflag_first) == flag /\ ~unflag_first

apply_uvflag(uvd, uvf, unflag_first, flag_missing, force_pol) ==
    IF ApplyUvflagError(uvd, uvf, force_pol) # None
    THEN <<"raised", ApplyUvflagError(uvd, uvf, force_pol)[1]>>
    ELSE <<"returned",
           [uvd EXCEPT !.flag_array =
               [blt \in DOMAIN uvd.flag_array |->
                   [freq \in DOMAIN uvd.flag_array[blt] |->
                       [pol \in DOMAIN uvd.flag_array[blt][freq] |->
                           \/ KeptFlag(uvd.flag_array[blt][freq][pol], unflag_first)
                           \/ IF AbsentFromMask(uvd, uvf, blt)
                              THEN flag_missing
                              ELSE MaskFlag(uvd, uvf, blt, freq, pol)]]]]>>

(* inplace=True changes the caller's object, inplace=False a copy of it;   *)
(* made_from keeps the object as it was before the call                    *)
CallApplyUvflag ==
    /\ call # None
    /\ call[1] = "apply_uvflag"
    /\ ret = None
    /\ ret' = apply_uvflag(call[2].uvd, call[2].uvf, call[2].unflag_first,
                           call[2].flag_missing, call[2].force_pol)
    /\ call' = <<"apply_uvflag",
                 [call[2] EXCEPT
                     !.uvd = IF call[2].inplace /\ ret'[1] = "returned"
                             THEN ret'[2]
                             ELSE @,
                     !.made_from = Some(call[2].uvd)]>>
    /\ UNCHANGED <<inp, self, pc, idx, fileVars, readVars, thrVars, warns, exc>>

(***************************************************************************)
(* initializers.configure_blt_rectangularity.  An argument that is not     *)
(* given is None, one that is given is Some(value).                        *)
(***************************************************************************)
EitherBaselineMsg == <<"Either baseline_array or unique_baselines must be provided">>

EitherTimeMsg == <<"Either time_array or unique_times must be provided">>

OnlyOneBaselineMsg == <<"Only one of baseline_array or unique_baselines can be provided">>

OnlyOneTimeMsg == <<"Only one of time_array or unique_times can be provided">>

UniqueTimesNeedBaselinesMsg == <<"If unique_times are provided, unique_baselines must be provided">>

UniqueBaselinesNeedTimesMsg == <<"If unique_baselines are provided, unique_times must be provided">>

UniqueMustBeRectangularMsg == <<"If unique_times are provided, blts_are_rectangular must be True">>

RectangularityErrorOverrideIgnored(time_array, unique_times, baseline_array, unique_baselines, blts_are_rectangular) ==
    IF baseline_array = None /\ unique_baselines = None
    THEN Some(EitherBaselineMsg)
    ELSE IF time_array = None /\ unique_times = None
    THEN Some(EitherTimeMsg)
    ELSE IF baseline_array # None /\ unique_baselines # None
    THEN Some(OnlyOneBaselineMsg)
    ELSE IF time_array # None /\ unique_times # None
    THEN Some(OnlyOneTimeMsg)
    ELSE IF unique_times # None /\ unique_baselines = None
    THEN Some(UniqueTimesNeedBaselinesMsg)
    ELSE IF unique_baselines # None /\ unique_times = None
    THEN Some(UniqueBaselinesNeedTimesMsg)
    ELSE None

RectangularityError(time_array, unique_times, baseline_array, unique_baselines, blts_are_rectangular) ==
    IF baseline_array = None /\ unique_baselines = None
    THEN Some(EitherBaselineMsg)
    ELSE IF time_array = None /\ unique_times = None
    THEN Some(EitherTimeMsg)
    ELSE IF baseline_array # None /\ unique_baselines # None
    THEN Some(OnlyOneBaselineMsg)
    ELSE IF time_array # None /\ unique_times # None
    THEN Some(OnlyOneTimeMsg)
    ELSE IF unique_times # None /\ unique_baselines = None
    THEN Some(UniqueTimesNeedBaselinesMsg)
    ELSE IF unique_baselines # None /\ unique_times = None
    THEN Some(UniqueBaselinesNeedTimesMsg)
    ELSE IF unique_times # None /\ blts_are_rectangular = Some(FALSE)
    THEN Some(UniqueMustBeRectangularMsg)
    ELSE None

(* np.repeat(a, n) and np.tile(a, n) *)
repeat(a, n) == [k \in 1..(Len(a) * n) |-> a[((k - 1) \div n) + 1]]

tile(a, n) == [k \in 1..(Len(a) * n) |-> a[((k - 1) % Len(a)) + 1]]

(* the first n entries, or all of them when there are fewer, are equal *)
FirstBlockConstant(a, n) == \A k \in 1..Min(n, Len(a)) : a[k] = a[1]

(* which axis runs fastest, from the first block of entries: a constant    *)
(* time (the baselines run fastest), a constant baseline (the times run    *)
(* fastest), or neither                                                    *)
FastestAxis(time_array, baseline_array, nbls, ntimes) ==
    IF FirstBlockConstant(time_array, nbls)
    THEN Some(FALSE)
    ELSE IF FirstBlockConstant(baseline_array, ntimes)
    THEN Some(TRUE)
    ELSE None

configure_blt_rectangularity(time_array, unique_times, baseline_array, unique_baselines, blts_are_rectangular, time_axis_faster_than_bls) ==
    IF RectangularityError(time_array, unique_times, baseline_array,
                           unique_baselines, blts_are_rectangular) # None
    THEN <<"raised", RectangularityError(time_array, unique_times, baseline_array,
                                         unique_baselines, blts_are_rectangular)[1]>>
    ELSE IF unique_times # None
    THEN LET nbls == Len(unique_baselines[1])
             ntimes == Len(unique_times[1])
             faster == time_axis_faster_than_bls = Some(TRUE)
         IN  <<"returned",
               <<nbls, ntimes, TRUE, faster,
                 IF faster THEN tile(unique_times[1], nbls)
                           ELSE repeat(unique_times[1], nbls),
                 IF faster THEN repeat(unique_baselines[1], ntimes)
                           ELSE tile(unique_baselines[1], ntimes)>>>>
    ELSE LET nbls == Cardinality(SeqRange(baseline_array[1]))
             ntimes == Cardinality(SeqRange(time_array[1]))
             axis == FastestAxis(time_array[1], baseline_array[1], nbls, ntimes)
             rect == IF blts_are_rectangular # None
                     THEN blts_are_rectangular[1]
                     ELSE axis # None
             faster == IF time_axis_faster_than_bls # None
                       THEN time_axis_faster_than_bls[1]
                       ELSE rect /\ axis = Some(TRUE)
         IN  <<"returned",
               <<nbls, ntimes, rect, faster, time_array[1], baseline_array[1]>>>>

CallConfigureBltRectangularity ==
    /\ call # None
    /\ call[1] = "configure_blt_rectangularity"
    /\ ret = None
    /\ ret' = configure_blt_rectangularity(
                  call[2].time_array, call[2].unique_times, call[2].baseline_array,
                  call[2].unique_baselines, call[2].blts_are_rectangular,
                  call[2].time_axis_faster_than_bls)
    /\ UNCHANGED <<inp, call, self, pc, idx, fileVars, readVars, thrVars, warns, exc>>

(***************************************************************************)
(* The inputs: the arguments and the contents of the files.                *)
(***************************************************************************)
MaxFiles == 3

NBlts == 2

vis_xx == <<"a", "_vis_", "xx", ".sav">>
vis_yy == <<"a", "_vis_", "yy", ".sav">>
vis_xy == <<"a", "_vis_", "xy", ".sav">>
vis_yx == <<"a", "_vis_", "yx", ".sav">>
vis_XX == <<"B", "_VIS_", "XX", ".SAV">>
vis_model_xx == <<"a", "_vis_", "model_", "xx", ".sav">>
f_params == <<"a", "_params", ".sav">>
f_obs == <<"a", "_obs", ".sav">>
f_flags == <<"a", "_flags", ".sav">>
f_layout == <<"a", "_layout", ".sav">>
f_settings == <<"a", "_settings", ".txt">>
f_readme == <<"a", "_readme", ".txt">>

FileNames ==
    {vis_xx, vis_yy, vis_XX, vis_model_xx, f_params, f_obs, f_flags, f_layout,
     f_settings, f_readme}

SeqsUpTo(S, n) == UNION {[1..k -> S] : k \in 0..n}

FullLists ==
    {<<f_layout, vis_yy, f_obs, f_settings, f_params, vis_xx, f_flags>>,
     <<vis_yy, f_readme, f_flags, f_params, f_layout, f_settings,
       vis_model_xx, vis_xx>>,
     <<f_obs, f_params, f_flags, f_layout, f_settings>>,
     <<f_flags, vis_XX, f_settings, f_params, vis_model_xx>>}

ObsDefault ==
    [N_POL |-> 2, POL_NAMES |-> <<"XX", "YY", "XY", "YX">>, INSTRUMENT |-> "MWA",
     LAT |-> 1, LON |-> 0, ALT |-> 1, N_TIME |-> 2, N_FREQ |-> 1,
     JDATE |-> <<10, 11>>, BIN_OFFSET |-> <<0, 1>>,
     OBSRA |-> 0, PHASERA |-> 0, OBSDEC |-> -27, PHASEDEC |-> -27,
     ORIG_PHASERA |-> 0, ORIG_PHASEDEC |-> -27]

ObsSources == Pols \cup {"obs"}

(* the (blt, frequency) pairs of the arrays of the files *)
Samples == Index(NBlts, ObsDefault.N_FREQ)

VisOf(k) == [p \in Pols |-> [x \in Samples |->
                                <<IndexOf(lin_pol_order, p) + x[1], k>>]]

WeightVals == {-1, 0, 2}

WeightArrays == [Samples -> WeightVals]

ConstWeights(v) == [x \in Samples |-> v]

WeightsDefault == <<ConstWeights(2), ConstWeights(0), ConstWeights(-1), ConstWeights(2)>>

LayoutDefault ==
    [array_center |-> <<6, 0, 1>>, coordinate_frame |-> <<"ITRF">>, gst0 |-> 5,
     ref_date |-> <<"JD2456528">>, earth_degpd |-> 360, dut1 |-> 0,
     time_system |-> <<"utc", " ">>, diameters |-> Some(14),
     others |-> <<<<<<"N", "_", "PCAL">>, 3>>, <<<<"DIFF", "_", "UTC">>, 0>>>>]

GoodSettings ==
    <<<<"##MAIN">>, <<"User", " ", "alice", "\n">>, <<"fhd", "\t", "v1", " ", "\n">>,
      <<"##COMMAND_LINE">>, <<"cmd", "\n">>, <<"##OBS">>, <<"n_pol", "\n">>>>

KnownDefault ==
    [n \in {"MWA"} |-> [telescope_location |-> <<6, 0, 1>>,
                        antenna_diameters |-> None]]

DefaultInputs ==
    [filelist |-> <<vis_xx, f_params, f_flags>>, use_model |-> FALSE,
     read_data |-> TRUE, background_lsts |-> TRUE,
     obs |-> [src \in ObsSources |-> ObsDefault], vis |-> VisOf(1),
     flag_file_dict |-> [k \in {"flag_arr"} |-> WeightsDefault],
     params_Nblts |-> NBlts, layout |-> LayoutDefault,
     settings_lines |-> GoodSettings, known_telescopes |-> KnownDefault]

(* d with the fields of r replaced *)
With(d, r) == [k \in DOMAIN d |-> IF k \in DOMAIN r THEN r[k] ELSE d[k]]

Attributes ==
    {"Npols", "Ntimes", "Nblts", "Nfreqs", "vis_units", "time_array",
     "telescope_name", "instrument", "telescope_location", "gst0", "rdate",
     "earth_omega", "dut1", "timesys", "antenna_diameters", "lst_array",
     "phase_type", "phase_center_ra_degrees", "phase_center_dec_degrees",
     "polarization_array", "history", "data_array", "flag_array",
     "nsample_array", "extra_keywords", "object_name"}

(* A new UVData object, and read_fhd at its first line. *)
InitWith(Inputs) ==
    /\ inp \in Inputs
    /\ self = [a \in Attributes |-> None]
    /\ pc = "classify"
    /\ idx = 1
    /\ datafiles = <<>>
    /\ params_file = None
    /\ obs_file = None
    /\ flags_file = None
    /\ layout_file = None
    /\ settings_file = None
    /\ this_obs = None
    /\ vis_data = <<>>
    /\ fhd_pol_list = <<>>
    /\ vis_weights_data = <<>>
    /\ pol_list = <<>>
    /\ vidx = 1
    /\ proc = "none"
    /\ joined = FALSE
    /\ filled = FALSE
    /\ warns = <<>>
    /\ exc = None
    /\ call = None
    /\ ret = None

(* The state of a call of another function: no read_fhd is under way. *)
InitCall(Calls) ==
    /\ call \in Calls
    /\ ret = None
    /\ inp = None
    /\ self = None
    /\ pc = "none"
    /\ idx = 0
    /\ datafiles = <<>>
    /\ params_file = None
    /\ obs_file = None
    /\ flags_file = None
    /\ layout_file = None
    /\ settings_file = None
    /\ this_obs = None
    /\ vis_data = <<>>
    /\ fhd_pol_list = <<>>
    /\ vis_weights_data = <<>>
    /\ pol_list = <<>>
    /\ vidx = 0
    /\ proc = "none"
    /\ joined = FALSE
    /\ filled = FALSE
    /\ warns = <<>>
    /\ exc = None

(* Any short file list, and some complete ones, with either data kind. *)
InputsFiles ==
    {With(DefaultInputs, [filelist |-> fl, use_model |-> um, read_data |-> rd]) :
        fl \in SeqsUpTo(FileNames, MaxFiles) \cup FullLists,
        um \in BOOLEAN, rd \in BOOLEAN}

InitFiles == InitWith(InputsFiles)

SpecFiles == InitFiles /\ [][Next]_vars

(***************************************************************************)
(* The claims about the roles of the files.  What a name matches is stated *)
(* here from the suffixes alone, apart from the loop of the code.          *)
(***************************************************************************)
RoleNames == Pols \cup {"params", "obs", "flags", "layout", "settings"}

SuffixOf(role, use_model) ==
    CASE role \in Pols ->
            (IF use_model THEN <<"_vis_", "model_", role, ".sav">>
             ELSE <<"_vis_", role, ".sav">>)
      [] role = "settings" -> <<"_settings", ".txt">>
      [] role = "params" -> <<"_params", ".sav">>
      [] role = "obs" -> <<"_obs", ".sav">>
      [] role = "flags" -> <<"_flags", ".sav">>
      [] role = "layout" -> <<"_layout", ".sav">>

Matches(file, role, use_model) == endswith(lower(file), SuffixOf(role, use_model))

Listed(role) ==
    \E i \in DOMAIN inp.filelist : Matches(inp.filelist[i], role, inp.use_model)

Duplicated(role) ==
    \E i, j \in DOMAIN inp.filelist :
        /\ i < j
        /\ Matches(inp.filelist[i], role, inp.use_model)
        /\ Matches(inp.filelist[j], role, inp.use_model)

MultipleMsgs == {MultipleMsg(role) : role \in RoleNames}

MissingMsgs ==
    {<<"No data files included in file list and read_data is True.">>,
     <<"No obs file included in file list and read_data is False.">>,
     <<"No params file included in file list">>,
     <<"No flags file included in file list">>}

LoopEnded == pc # "classify" \/ idx > Len(inp.filelist)

(* C1: once the loop over filelist has ended, the call has raised          *)
(* "multiple <role> ... in filelist" for a role that two entries match if  *)
(* there is such a role, whatever else is listed or missing and wherever   *)
(* the two entries are, and has raised no such error if there is none.     *)
C1_DuplicateRoleRaises ==
    LoopEnded =>
        /\ (\E role \in RoleNames : Duplicated(role)) <=> exc \in MultipleMsgs
        /\ \A role \in RoleNames : exc = MultipleMsg(role) => Duplicated(role)

(* two differently named xx data files, first and last of a list that has  *)
(* no params file and no flags file *)
C1_Witness ==
    /\ exc = MultipleMsg("xx")
    /\ Len(inp.filelist) = 3
    /\ inp.filelist[1] # inp.filelist[3]
    /\ Matches(inp.filelist[1], "xx", inp.use_model)
    /\ Matches(inp.filelist[3], "xx", inp.use_model)
    /\ ~Listed("flags")
    /\ ~Listed("params")

MissingExpected ==
    \/ inp.read_data /\ \A p \in Pols : ~Listed(p)
    \/ ~inp.read_data /\ ~Listed("obs")
    \/ ~Listed("params")
    \/ ~Listed("flags")

(* C2: with no role duplicated, once the required-file checks are passed   *)
(* or failed, a missing-file error has been raised if and only if          *)
(* (read_data and no data file of the selected kind) or (not read_data and *)
(* no obs file) or no params file or no flags file is listed; a missing    *)
(* layout or settings file raises nothing and gives one warning each.      *)
C2_MissingFileErrors ==
    (pc # "classify" /\ \A role \in RoleNames : ~Duplicated(role)) =>
        /\ MissingExpected <=> exc \in MissingMsgs
        /\ ~MissingExpected =>
              /\ Listed("layout") <=> \A i \in DOMAIN warns : warns[i] # NoLayoutWarning
              /\ Listed("settings") <=> \A i \in DOMAIN warns : warns[i] # NoSettingsWarning
              /\ Cardinality({i \in DOMAIN warns : warns[i] = NoLayoutWarning}) <= 1
              /\ Cardinality({i \in DOMAIN warns : warns[i] = NoSettingsWarning}) <= 1

(* metadata only: a data file, params and flags are listed, the obs file   *)
(* is not *)
C2_Witness ==
    /\ ~inp.read_data
    /\ exc = <<"No obs file included in file list and read_data is False.">>
    /\ Listed("xx") /\ Listed("params") /\ Listed("flags")

Unrecognized(file) == \A role \in RoleNames : ~Matches(file, role, inp.use_model)

RECURSIVE Recognized(_)
Recognized(fl) ==
    IF fl = <<>> THEN <<>>
    ELSE (IF Unrecognized(Head(fl)) THEN <<>> ELSE <<Head(fl)>>)
         \o Recognized(Tail(fl))

RECURSIVE ClassifyAll(_, _, _)
ClassifyAll(a, fl, use_model) ==
    IF fl = <<>> \/ a.exc # None THEN a
    ELSE ClassifyAll(ClassifyStep(a, Head(fl), use_model), Tail(fl), use_model)

OtherKind(file) ==
    \E p \in Pols : Matches(file, p, ~inp.use_model)

(* C3: the roles and the duplicate error that the loop ends with are those *)
(* that the loop gives on filelist without the entries that end with none  *)
(* of the role suffixes; a data file of the kind not selected is such an   *)
(* entry.                                                                  *)
C3_UnrecognizedIgnored ==
    LoopEnded =>
        /\ \A i \in DOMAIN inp.filelist :
              OtherKind(inp.filelist[i]) => Unrecognized(inp.filelist[i])
        /\ [Roles EXCEPT !.exc = IF exc \in MultipleMsgs THEN exc ELSE None]
             = ClassifyAll(NoRoles, Recognized(inp.filelist), inp.use_model)

(* a model data file between a data file and a params file, with           *)
(* use_model=False *)
C3_Witness ==
    /\ LoopEnded
    /\ ~inp.use_model
    /\ Len(inp.filelist) = 3
    /\ Matches(inp.filelist[2], "xx", TRUE)
    /\ Keys(datafiles) = {"xx"}
    /\ params_file = inp.filelist[3]

(***************************************************************************)
(* The worker and the exits: complete file lists, with and without the     *)
(* thread, settings files with and without their markers, obs structures   *)
(* with and without a name for every polarization.                         *)
(***************************************************************************)
SettingsChoices ==
    {GoodSettings,
     \* no ##MAIN line
     <<<<"User", " ", "alice", "\n">>, <<"##COMMAND_LINE">>, <<"cmd", "\n">>,
       <<"##OBS">>>>,
     \* no User line
     <<<<"##MAIN">>, <<"##COMMAND_LINE">>, <<"cmd", "\n">>, <<"##OBS">>>>,
     \* no ##OBS line
     <<<<"##MAIN">>, <<"User", " ", "alice", "\n">>, <<"##COMMAND_LINE">>,
       <<"cmd", "\t", "\n">>>>}

InputsThread ==
    {With(DefaultInputs,
          [filelist |-> fl, read_data |-> rd, background_lsts |-> bg,
           settings_lines |-> st,
           obs |-> [src \in ObsSources |-> With(ObsDefault, [POL_NAMES |-> pn])]]) :
        fl \in {<<vis_xx, f_params, f_flags>>,
                <<vis_yy, vis_xx, f_params, f_flags, f_settings>>,
                <<f_obs, f_settings, f_params, f_flags, f_layout, vis_xx>>},
        rd \in BOOLEAN, bg \in BOOLEAN, st \in SettingsChoices,
        pn \in {<<"XX", "YY", "XY", "YX">>, <<"XX">>}}

Init == InitWith(InputsThread)

Spec == Init /\ [][Next]_vars

Exited == pc \in {"done", "raised"}

C5_EveryExitJoined ==
    (Exited /\ proc # "none") => joined

(***************************************************************************)
(* The telescope location and the layout: obs positions, array centers     *)
(* and registry positions that agree, nearly agree or differ, frames in    *)
(* both cases and not "itrf", known and unknown telescopes; and layouts    *)
(* with and without a reference date and diameters.                        *)
(***************************************************************************)
MaxCoord == 9

LocationInputs ==
    {With(DefaultInputs,
          [filelist |-> fl,
           obs |-> [src \in ObsSources |->
                       With(ObsDefault, [LAT |-> lat, ALT |-> alt, INSTRUMENT |-> name])],
           layout |-> With(LayoutDefault,
                           [array_center |-> <<x, 0, 1>>, coordinate_frame |-> fr]),
           known_telescopes |->
               [n \in {"MWA"} |-> [telescope_location |-> <<kx, 0, 1>>,
                                   antenna_diameters |-> None]]]) :
        fl \in {<<vis_xx, f_params, f_flags, f_layout>>},
        lat \in {0, 1}, alt \in {1, 3}, name \in {"MWA", "PAPER"},
        x \in 0..MaxCoord, fr \in {<<"ITRF">>, <<"itrf">>, <<"local">>},
        kx \in {0, 5, 8}}

ScalarInputs ==
    {With(DefaultInputs,
          [filelist |-> fl,
           layout |-> With(LayoutDefault,
                           [gst0 |-> g, ref_date |-> rd, time_system |-> ts,
                            diameters |-> di]),
           known_telescopes |->
               [n \in {"MWA"} |-> [telescope_location |-> <<6, 0, 1>>,
                                   antenna_diameters |-> kd]]]) :
        fl \in {<<vis_xx, f_params, f_flags, f_layout>>, <<vis_xx, f_params, f_flags>>},
        g \in {0, 5}, rd \in {<<>>, <<"JD2456528">>},
        ts \in {<<"utc", " ">>, <<"IAT">>}, di \in {None, Some(14)},
        kd \in {None, Some(4)}}

(***************************************************************************)
(* Layouts with further fields, in every order: short and long names with  *)
(* and without underscores, a name of exactly 8 characters, and names of   *)
(* the ignore list.                                                        *)
(***************************************************************************)
MaxOthers == 2

OtherFields ==
    {<<<<"N", "_", "PCAL">>, 3>>, <<<<"N", "_", "TILE", "_", "N">>, 4>>,
     <<<<"TILE", "_", "STAT">>, 5>>, <<<<"TILE", "NAMES">>, 6>>,
     <<<<"STAT">>, 7>>, <<<<"DIFF", "_", "UTC">>, 0>>, <<<<"POLA">>, 1>>,
     <<<<"BEAM", "_", "FWHM">>, 2>>, <<<<"POLA", "_", "ORIENTATION">>, 8>>}

KeywordInputs ==
    {With(DefaultInputs,
          [filelist |-> <<vis_xx, f_params, f_flags, f_layout>>,
           layout |-> With(LayoutDefault, [diameters |-> di, others |-> q])]) :
        di \in {None, Some(14)},
        q \in {q \in SeqsUpTo(OtherFields, MaxOthers) :
                  \A i, j \in DOMAIN q : q[i] = q[j] => i = j}}

(***************************************************************************)
(* Obs structures whose observed, phase and nominal pointings agree or     *)
(* differ, in right ascension and in declination, of the MWA and of        *)
(* another telescope.                                                      *)
(***************************************************************************)
PhaseInputs ==
    {With(DefaultInputs,
          [obs |-> [src \in ObsSources |->
                       With(ObsDefault,
                            [OBSRA |-> ora, PHASERA |-> pra, ORIG_PHASERA |-> nra,
                             OBSDEC |-> odec, PHASEDEC |-> pdec,
                             ORIG_PHASEDEC |-> ndec, INSTRUMENT |-> name])]]) :
        ora \in {0, 1}, pra \in {0, 1}, nra \in {0, 2},
        odec \in {-27, -26}, pdec \in {-27, -26}, ndec \in {-27, -20},
        name \in {"MWA", "PAPER"}}

InitLayout ==
    InitWith(LocationInputs \cup ScalarInputs \cup KeywordInputs \cup PhaseInputs)

SpecLayout == InitLayout /\ [][Next]_vars

LayoutRead == pc \notin {"classify", "read_obs", "weights", "meta", "layout"} /\ self.telescope_location # None

ObsLatLonAlt == <<deg2rad(this_obs.LAT), deg2rad(this_obs.LON), this_obs.ALT>>

ObsXYZ == XYZ_from_LatLonAlt(ObsLatLonAlt[1], ObsLatLonAlt[2], ObsLatLonAlt[3])

Agree ==
    \/ _xyz_close(ObsXYZ, inp.layout.array_center)
    \/ _latlonalt_close(ObsLatLonAlt, LatLonAlt_from_XYZ(inp.layout.array_center))

Known == this_obs.INSTRUMENT \in DOMAIN inp.known_telescopes

KnownXYZ == inp.known_telescopes[this_obs.INSTRUMENT].telescope_location

ObsMatchesKnown == _latlonalt_close(ObsLatLonAlt, LatLonAlt_from_XYZ(KnownXYZ))

LayoutMatchesKnown == _xyz_close(inp.layout.array_center, KnownXYZ)

NLocationWarnings == Cardinality({i \in DOMAIN warns : warns[i] \in LocationWarnings})

(* C6: with a layout file whose frame is "itrf": if the obs position and   *)
(* the array center agree by either test, telescope_location is the array  *)
(* center and there is no location warning; otherwise there is exactly one *)
(* and telescope_location is the obs position if the telescope is known    *)
(* and the obs position matches the registry, else the array center if it  *)
(* matches the registry, else the registry position if the telescope is    *)
(* known, else the obs position.  With another frame it is the obs         *)
(* position and there is no location warning.                              *)
C6_TelescopeLocation ==
    (LayoutRead /\ layout_file # None) =>
        IF lower(inp.layout.coordinate_frame) # <<"itrf">>
        THEN self.telescope_location = Some(ObsXYZ) /\ NLocationWarnings = 0
        ELSE IF Agree
        THEN /\ self.telescope_location = Some(inp.layout.array_center)
             /\ NLocationWarnings = 0
        ELSE /\ NLocationWarnings = 1
             /\ self.telescope_location =
                    Some(IF Known /\ ObsMatchesKnown THEN ObsXYZ
                         ELSE IF Known /\ LayoutMatchesKnown
                         THEN inp.layout.array_center
                         ELSE IF Known THEN KnownXYZ
                         ELSE ObsXYZ)

(* the obs position and the array center disagree and both match the       *)
(* registry: the obs position is taken *)
C6_Witness ==
    /\ LayoutRead
    /\ layout_file # None
    /\ lower(inp.layout.coordinate_frame) = <<"itrf">>
    /\ ~Agree
    /\ Known /\ ObsMatchesKnown /\ LayoutMatchesKnown
    /\ self.telescope_location = Some(ObsXYZ)
    /\ ObsXYZ # inp.layout.array_center
    /\ NLocationWarnings = 1

(* C10: with a layout file, gst0, the reference date when it is not empty, *)
(* earth_degpd, dut1, time_system and, when there are any, the diameters   *)
(* are each on their own attribute: gst0, rdate, earth_omega, dut1,        *)
(* timesys (upper case, stripped) and antenna_diameters.                   *)
C10_LayoutScalarsCopied ==
    (LayoutRead /\ layout_file # None) =>
        /\ self.gst0 = Some(inp.layout.gst0)
        /\ inp.layout.ref_date # <<>> => self.rdate = Some(lower(inp.layout.ref_date))
        /\ self.earth_omega = Some(inp.layout.earth_degpd)
        /\ self.dut1 = Some(inp.layout.dut1)
        /\ self.timesys = Some(strip(upper(inp.layout.time_system)))
        /\ inp.layout.diameters # None =>
              self.antenna_diameters = inp.layout.diameters

(***************************************************************************)
(* The polarizations: the data files of any polarizations in any order,    *)
(* and any N_POL of the obs file.                                          *)
(***************************************************************************)
MaxDataFiles == 3

Injective(q) == \A i, j \in DOMAIN q : q[i] = q[j] => i = j

DataLists ==
    {q \in SeqsUpTo({vis_xx, vis_yy, vis_xy, vis_yx}, MaxDataFiles) : Injective(q)}

InputsPols ==
    {With(DefaultInputs,
          [filelist |-> <<f_flags>> \o q \o <<f_params, f_obs>>, read_data |-> rd,
           vis |-> VisOf(k),
           obs |-> [src \in ObsSources |-> With(ObsDefault, [N_POL |-> n])]]) :
        q \in DataLists, rd \in BOOLEAN, k \in {1, 2},
        n \in 1..Len(lin_pol_order)}

InitPols == InitWith(InputsPols)

SpecPols == InitPols /\ [][Next]_vars

FixedCodes == <<-5, -6, -7, -8>>

CodeOf(pol) ==
    CASE pol = "xx" -> -5 [] pol = "yy" -> -6 [] pol = "xy" -> -7 [] pol = "yx" -> -8

(* q is p with some entries left out, the order kept *)
IsSelection(q, p) ==
    /\ \A i \in DOMAIN q : \E j \in DOMAIN p : q[i] = p[j]
    /\ \A i, j \in DOMAIN q :
          i < j => \E a, b \in DOMAIN p : a < b /\ p[a] = q[i] /\ p[b] = q[j]

(* C7: after read_fhd polarization_array is a selection, in order, from    *)
(* [-5, -6, -7, -8] and Npols is its length.  With read_data it holds      *)
(* exactly the codes of the polarizations that have a data file, and the   *)
(* conjugated data of a polarization is at the index of its code; without, *)
(* it holds the first N_POL codes of the list.                             *)
C7_PolarizationArray ==
    pc = "done" =>
        LET pa == self.polarization_array[1] IN
        /\ IsSelection(pa, FixedCodes)
        /\ self.Npols = Some(Len(pa))
        /\ inp.read_data =>
              /\ {pa[i] : i \in DOMAIN pa} = {CodeOf(p) : p \in {r \in Pols : Listed(r)}}
              /\ \A p \in Pols : Listed(p) =>
                    \E i \in DOMAIN pa :
                       /\ pa[i] = CodeOf(p)
                       /\ \A x \in Samples :
                             self.data_array[1][i - 1][x]
                                = <<inp.vis[p][x][1], -inp.vis[p][x][2]>>
        /\ ~inp.read_data =>
              /\ pa = SubSeq(FixedCodes, 1, this_obs.N_POL)
              /\ this_obs.N_POL = inp.obs["obs"].N_POL

(* the data files are listed yx, xx, yy and the array is -5, -6, -8 *)
C7_Witness ==
    /\ pc = "done"
    /\ inp.read_data
    /\ [i \in DOMAIN datafiles |-> datafiles[i][1]] = <<"yx", "xx", "yy">>
    /\ self.polarization_array = Some(<<-5, -6, -8>>)

(***************************************************************************)
(* The data arrays and the weights: flags files with either key, both or   *)
(* none, weights below, at and above zero, polarization names in both      *)
(* orders.                                                                 *)
(***************************************************************************)
FlagArrChoices ==
    {<<w, ConstWeights(v)>> : w \in WeightArrays, v \in {0, 2}}

VisWeightsChoices ==
    {<<ConstWeights(2), ConstWeights(2)>>, <<ConstWeights(-1), ConstWeights(0)>>}

FlagDict(fa, vw) ==
    [k \in {"bl_use"} \cup (IF fa # None THEN {"flag_arr"} ELSE {})
                      \cup (IF vw # None THEN {"vis_weights"} ELSE {}) |->
        IF k = "flag_arr" THEN fa ELSE IF k = "vis_weights" THEN vw ELSE <<>>]

InputsData ==
    {With(DefaultInputs,
          [filelist |-> fl, read_data |-> rd, vis |-> VisOf(k),
           flag_file_dict |-> FlagDict(fa, vw),
           obs |-> [src \in ObsSources |-> With(ObsDefault, [POL_NAMES |-> pn])]]) :
        fl \in {<<vis_xx, f_params, f_flags>>, <<vis_yy, vis_xx, f_params, f_flags>>,
                <<f_obs, f_params, f_flags, vis_yy>>, <<f_obs, vis_xx, f_params>>},
        rd \in BOOLEAN, k \in {1, 2},
        fa \in FlagArrChoices \cup {None}, vw \in VisWeightsChoices \cup {None},
        pn \in {<<"XX", "YY">>, <<"YY", "XX">>}}

InitData == InitWith(InputsData)

SpecData == InitData /\ [][Next]_vars

(* the weights the flags file holds for a polarization *)
FileWeights(pol) ==
    LET d == inp.flag_file_dict
        key == IF "flag_arr" \in DOMAIN d THEN "flag_arr" ELSE "vis_weights"
        k == CHOOSE k \in DOMAIN this_obs.POL_NAMES :
                 LowerTok(this_obs.POL_NAMES[k]) = pol
    IN  d[key][k]

(* C8: after read_fhd with read_data, for every sample of a polarization   *)
(* that has a data file, with w its weight in the flags file: the flag is  *)
(* w <= 0, nsample is |w| and not negative, and the data is the conjugate  *)
(* of the stored visibility; so nsample 0 is flagged and an unflagged      *)
(* sample has nsample > 0.                                                 *)
C8_FlagsAndNsamples ==
    (pc = "done" /\ inp.read_data) =>
        \A p \in Pols : Listed(p) =>
            LET i == IndexOf(self.polarization_array[1], CodeOf(p)) - 1 IN
            \A x \in Samples :
                LET w == FileWeights(p)[x]
                    flag == self.flag_array[1][i][x]
                    nsample == self.nsample_array[1][i][x]
                IN  /\ flag <=> w <= 0
                    /\ nsample = (IF w < 0 THEN -w ELSE w)
                    /\ nsample >= 0
                    /\ nsample = 0 => flag
                    /\ ~flag => nsample > 0
                    /\ self.data_array[1][i][x]
                          = <<inp.vis[p][x][1], -inp.vis[p][x][2]>>

(* one polarization has a sample of weight 0 and one of weight -1 *)
C8_Witness ==
    /\ pc = "done"
    /\ inp.read_data
    /\ \E p \in Pols : \E x, y \in Samples :
          LET i == IndexOf(self.polarization_array[1], CodeOf(p)) - 1 IN
          /\ Listed(p)
          /\ FileWeights(p)[x] = 0
          /\ self.flag_array[1][i][x]
          /\ FileWeights(p)[y] = -1
          /\ self.nsample_array[1][i][y] = 1
          /\ self.flag_array[1][i][y]

WeightsRead == self.Npols # None /\ pc # "weights"

(* C9: with read_data, once the flags file is read, the weights are those  *)
(* under "flag_arr" when the file has that key, else those under           *)
(* "vis_weights", and the error "No recognized key for visibility weights  *)
(* in flags_file." has been raised exactly when it has neither; without    *)
(* read_data that error is never raised, and a call with no flags file     *)
(* listed does not get past the required-file checks.                      *)
C9_WeightsKey ==
    /\ (inp.read_data /\ WeightsRead) =>
          LET d == inp.flag_file_dict IN
          /\ exc = NoWeightsKeyMsg <=> {"flag_arr", "vis_weights"} \cap DOMAIN d = {}
          /\ exc # NoWeightsKeyMsg =>
                \A p \in DOMAIN vis_weights_data :
                    vis_weights_data[p] =
                        (IF "flag_arr" \in DOMAIN d THEN d["flag_arr"]
                         ELSE d["vis_weights"])[
                            CHOOSE k \in DOMAIN fhd_pol_list : fhd_pol_list[k] = p]
          /\ exc # NoWeightsKeyMsg => DOMAIN vis_weights_data # {}
    /\ ~inp.read_data =>
          /\ exc # NoWeightsKeyMsg
          /\ (pc # "classify" /\ ~Listed("flags")) => exc # None /\ self.Npols = None

(* the flags file has both keys, with different weights: those of          *)
(* "flag_arr" are taken *)
C9_Witness ==
    /\ pc = "done"
    /\ inp.read_data
    /\ {"flag_arr", "vis_weights"} \subseteq DOMAIN inp.flag_file_dict
    /\ inp.flag_file_dict["flag_arr"][1] # inp.flag_file_dict["vis_weights"][1]
    /\ vis_weights_data[fhd_pol_list[1]] = inp.flag_file_dict["flag_arr"][1]

(***************************************************************************)
(* C11: once read_fhd has read a layout file, the keys of extra_keywords   *)
(* are exactly the keys of the fields of the layout that are neither read  *)
(* into an attribute (the eleven fields of layout_fields_read and          *)
(* "diameters") nor on the ignore list; the key of a field is its name in  *)
(* upper case, without its underscores exactly when the name has more than *)
(* 8 characters, and every entry holds the value of such a field: no field *)
(* that was read or ignored is in extra_keywords.  Without a layout file,  *)
(* and before it is read, extra_keywords is empty.                         *)
(***************************************************************************)
ConsumedFields ==
    {upper(layout_fields_read[i]) : i \in DOMAIN layout_fields_read}
    \cup {<<"DIAMETERS">>}

IgnoredFields ==
    {upper(layout_fields_ignore[i]) : i \in DOMAIN layout_fields_ignore}

NameLength(name) == len(lower(name))

KeyOf(name) ==
    IF NameLength(name) > 8
    THEN SelectSeq(name, LAMBDA t : t # "_") ELSE name

KeptFields ==
    {i \in DOMAIN inp.layout.others :
        inp.layout.others[i][1] \notin ConsumedFields \cup IgnoredFields}

C11_ExtraKeywords ==
    IF self.telescope_location # None /\ layout_file # None
    THEN /\ Keys(self.extra_keywords)
              = {KeyOf(inp.layout.others[i][1]) : i \in KeptFields}
         /\ \A e \in DOMAIN self.extra_keywords :
                \E i \in KeptFields :
                    self.extra_keywords[e]
                      = <<KeyOf(inp.layout.others[i][1]), inp.layout.others[i][2]>>
    ELSE self.extra_keywords = <<>>

(* A layout with diameters, a field of exactly eight characters with       *)
(* underscores and a longer one has been read.                             *)
C11_Witness ==
    /\ pc = "telescope_params"
    /\ layout_file # None
    /\ inp.layout.diameters # None
    /\ inp.layout.others = <<<<<<"N", "_", "TILE", "_", "N">>, 4>>,
                             <<<<"TILE", "_", "STAT">>, 5>>>>
    /\ self.extra_keywords = <<<<<<"N", "_", "TILE", "_", "N">>, 4>>,
                               <<<<"TILE", "STAT">>, 5>>>>

(***************************************************************************)
(* C12: once the phase is set, the object is phased and                    *)
(* phase_center_ra_degrees and phase_center_dec_degrees are PHASERA and    *)
(* PHASEDEC of the obs structure, also where OBSRA and OBSDEC differ from  *)
(* them.                                                                   *)
(***************************************************************************)
PhaseSet == self.phase_type # None

C12_PhaseFromPhaseFields ==
    PhaseSet =>
        /\ self.phase_type = Some("phased")
        /\ self.phase_center_ra_degrees = Some(this_obs.PHASERA)
        /\ self.phase_center_dec_degrees = Some(this_obs.PHASEDEC)

(***************************************************************************)
(* What lines 534-544 do: the object is marked phased whatever the obs     *)
(* structure holds, and the phase center is OBSRA and OBSDEC, the observed *)
(* pointing: not ORIG_PHASERA and ORIG_PHASEDEC, which only object_name    *)
(* shows, and not PHASERA and PHASEDEC where these differ; the warning is  *)
(* issued exactly when the observed and the phase pointing differ.         *)
(***************************************************************************)
PhaseFromObserved ==
    PhaseSet =>
        /\ self.phase_type = Some("phased")
        /\ self.phase_center_ra_degrees = Some(this_obs.OBSRA)
        /\ self.phase_center_dec_degrees = Some(this_obs.OBSDEC)
        /\ (\E i \in DOMAIN warns : warns[i] = PhaseWarning)
             <=> (this_obs.OBSRA # this_obs.PHASERA
                  \/ this_obs.OBSDEC # this_obs.PHASEDEC)
        /\ self.object_name \in
               {Some(<<"EoR 0 Field">>),
                Some(<<"Field RA(deg): ", ToString(this_obs.ORIG_PHASERA),
                       ", Dec:", ToString(this_obs.ORIG_PHASEDEC)>>)}

(* The observed, the phase and the nominal pointing all differ, and the    *)
(* phase has been set with the warning.                                    *)
PhaseFieldsDiffer ==
    /\ PhaseSet
    /\ this_obs.OBSRA = 1 /\ this_obs.PHASERA = 0 /\ this_obs.ORIG_PHASERA = 2
    /\ this_obs.OBSDEC = -26 /\ this_obs.PHASEDEC = -27
    /\ this_obs.ORIG_PHASEDEC = -20
    /\ self.phase_center_ra_degrees = Some(1)
    /\ \E i \in DOMAIN warns : warns[i] = PhaseWarning

(***************************************************************************)
(* Settings files of up to MaxLines lines: marker lines in any order and   *)
(* number, User lines of two words and of one, and two other lines, one    *)
(* with a tab and trailing blanks.                                         *)
(***************************************************************************)
MaxLines == 5

SettingsLines ==
    {<<"##MAIN">>, <<"##COMMAND_LINE">>, <<"##OBS">>,
     <<"User", " ", "alice", "\n">>, <<"User", "\n">>,
     <<"fhd", "\t", "v1", " ", "\n">>, <<"cmd", "\n">>}

HistoryCalls ==
    {<<"get_fhd_history", [settings_lines |-> l, return_user |-> u]>> :
        l \in SeqsUpTo(SettingsLines, MaxLines), u \in BOOLEAN}

InitHistory == InitCall(HistoryCalls)

SpecHistory == InitHistory /\ [][CallGetFhdHistory]_vars

MarkerNames == {"##MAIN", "##COMMAND_LINE", "##OBS", "User"}

MarkerLines(lines, marker) == {i \in DOMAIN lines : lines[i][1] = marker}

HasMarkers(lines) == \A m \in MarkerNames : MarkerLines(lines, m) # {}

(* The first line by which a line of each marker has been seen, and the    *)
(* last line of a marker up to there.                                      *)
AllSeenBy(lines, s) ==
    \A m \in MarkerNames : \E i \in MarkerLines(lines, m) : i <= s

StopLine(lines) ==
    CHOOSE s \in DOMAIN lines :
        AllSeenBy(lines, s) /\ \A t \in 1..(s - 1) : ~AllSeenBy(lines, t)

MarkerAt(lines, marker) ==
    CHOOSE i \in MarkerLines(lines, marker) :
        /\ i <= StopLine(lines)
        /\ \A j \in MarkerLines(lines, marker) : j <= StopLine(lines) => j <= i

Clean(line) == rstrip([i \in DOMAIN line |-> IF line[i] = "\t" THEN " " ELSE line[i]])

(* the lines strictly between lines a and b, cleaned, in file order *)
Between(lines, a, b) ==
    IF b > a + 1 THEN [k \in 1..(b - a - 1) |-> Clean(lines[a + k])] ELSE <<>>

Words(line) == SelectSeq(line, LAMBDA t : t \notin {" ", "\t", "\n"})

HistoryCallEnded == call # None /\ call[1] = "get_fhd_history" /\ ret # None

HistoryOf(r, return_user) == IF return_user THEN r[2][1] ELSE r[2]

Occurs(line, history) == \E k \in DOMAIN history : history[k] = line

(***************************************************************************)
(* C13: on a settings file with the four markers get_fhd_history returns   *)
(* a history that begins with "FHD history" and holds every line between   *)
(* the MAIN marker and the OBS marker, cleaned, and with return_user the   *)
(* second word of the User line.                                           *)
(***************************************************************************)
C13_EveryLineBetweenMainAndObs ==
    (HistoryCallEnded /\ HasMarkers(call[2].settings_lines)) =>
        LET lines == call[2].settings_lines
            history == HistoryOf(ret, call[2].return_user)
        IN  /\ ret[1] = "returned"
            /\ history[1] = <<"FHD history">>
            /\ \A i \in DOMAIN lines :
                   (MarkerAt(lines, "##MAIN") < i /\ i < MarkerAt(lines, "##OBS"))
                       => Occurs(Clean(lines[i]), history)
            /\ call[2].return_user
                   => ret[2][2] = Words(lines[MarkerAt(lines, "User")])[2]

(***************************************************************************)
(* C13, amended: on a settings file with the four markers whose User line  *)
(* has a second word, get_fhd_history returns "FHD history" followed by    *)
(* the lines strictly between the MAIN and the COMMAND_LINE marker and     *)
(* then those strictly between the COMMAND_LINE and the OBS marker, each   *)
(* with its tabs replaced by spaces and its trailing whitespace stripped,  *)
(* in file order: the COMMAND_LINE marker line is not in it.  With         *)
(* return_user it also returns the second word of the User line.  A User   *)
(* line of one word is an IndexError.                                      *)
(***************************************************************************)
C13_History ==
    (HistoryCallEnded /\ HasMarkers(call[2].settings_lines)) =>
        LET lines == call[2].settings_lines
            main == MarkerAt(lines, "##MAIN")
            command == MarkerAt(lines, "##COMMAND_LINE")
            obs == MarkerAt(lines, "##OBS")
            words == Words(lines[MarkerAt(lines, "User")])
        IN  IF Len(words) < 2
            THEN ret = <<"raised", "IndexError">>
            ELSE /\ ret[1] = "returned"
                 /\ HistoryOf(ret, call[2].return_user)
                      = <<<<"FHD history">>>> \o Between(lines, main, command)
                          \o Between(lines, command, obs)
                 /\ call[2].return_user => ret[2][2] = words[2]

(* A file in the usual order, with a line in each section, was read. *)
C13_Witness ==
    /\ HistoryCallEnded
    /\ call[2].return_user
    /\ call[2].settings_lines
         = <<<<"##MAIN">>, <<"User", " ", "alice", "\n">>, <<"##COMMAND_LINE">>,
             <<"fhd", "\t", "v1", " ", "\n">>, <<"##OBS">>>>
    /\ ret = <<"returned", <<<<<<"FHD history">>, <<"User", " ", "alice">>,
                               <<"fhd", " ", "v1">>>>, "alice">>>>

(***************************************************************************)
(* C14: when read_fhd has raised for a duplicated role, a missing          *)
(* mandatory file or a flags file without a weights key, every attribute   *)
(* of the object has the value it had before the call.                     *)
(***************************************************************************)
FatalConfigurationErrors == MultipleMsgs \cup MissingMsgs \cup {NoWeightsKeyMsg}

C14_NoPartialObject ==
    (pc = "raised" /\ exc \in FatalConfigurationErrors)
        => self = [a \in Attributes |-> None]

(* What the code keeps: the errors of the file list come before any        *)
(* assignment, and the error of the weights key after that of Npols only.  *)
NoPartialObjectButNpols ==
    (pc = "raised" /\ exc \in FatalConfigurationErrors)
        => /\ \A a \in Attributes \ {"Npols"} : self[a] = None
           /\ self.Npols # None <=> exc = NoWeightsKeyMsg

(***************************************************************************)
(* Calls of read_fhd_cal with each argument a path or a list of up to      *)
(* MaxCalFiles paths, the layout and settings files also left out.         *)
(***************************************************************************)
MaxCalFiles == 4

FileArgs ==
    {<<"path", "f">>} \cup {<<"list", [i \in 1..n |-> "f"]>> : n \in 1..MaxCalFiles}

ReadFhdCalCalls ==
    {<<"read_fhd_cal", [cal |-> c, obs |-> o, layout |-> l, settings |-> st]>> :
        c \in FileArgs, o \in FileArgs, l \in FileArgs \cup {<<"none">>},
        st \in FileArgs \cup {<<"none">>}}

InitFhdCal == InitCall(ReadFhdCalCalls)

SpecFhdCal == InitFhdCal /\ [][CallReadFhdCal]_vars

FhdCalEnded == call # None /\ call[1] = "read_fhd_cal" /\ ret # None

Supplied(role) == call[2][role][1] # "none"

CountOf(role) == IF call[2][role][1] = "path" THEN 1 ELSE Len(call[2][role][2])

Mismatched(role) == Supplied(role) /\ CountOf(role) # CountOf("cal")

(* test_break_read_multi: the counts of cal, obs, layout and settings      *)
(* files (0 for a single path; the lists of the test hold 2 files) and the *)
(* role of the message.                                                    *)
BreakReadMultiCases ==
    {<<0, 2, 2, 2, "obs">>, <<2, 0, 2, 2, "obs">>, <<2, 2, 0, 2, "layout">>,
     <<2, 2, 2, 0, "settings">>, <<2, 4, 2, 2, "obs">>, <<2, 2, 4, 2, "layout">>,
     <<2, 2, 2, 4, "settings">>, <<0, 0, 2, 2, "layout">>,
     <<0, 0, 0, 2, "settings">>}

TestArg(n) == IF n = 0 THEN <<"path", "f">> ELSE <<"list", [i \in 1..n |-> "f"]>>

(***************************************************************************)
(* C15: read_fhd_cal raises "Number of <role>_files must match number of   *)
(* cal_files" exactly when the count of a supplied role (1 for a path)     *)
(* differs from the count of cal files, for the first such role in the     *)
(* order obs, layout, settings; with equal counts it raises no such error. *)
(* The cases of test_break_read_multi raise as the test expects.           *)
(***************************************************************************)
C15_FileCountsMatch ==
    FhdCalEnded =>
        /\ \A role \in {"obs", "layout", "settings"} :
               ret = <<"raised", NumberMismatchMsg(role)>>
                 <=> /\ Mismatched(role)
                     /\ role = "layout" => ~Mismatched("obs")
                     /\ role = "settings"
                           => ~Mismatched("obs") /\ ~Mismatched("layout")
        /\ ret[1] = "returned"
              <=> \A role \in {"obs", "layout", "settings"} : ~Mismatched(role)
        /\ \A t \in BreakReadMultiCases :
               call[2] = [cal |-> TestArg(t[1]), obs |-> TestArg(t[2]),
                          layout |-> TestArg(t[3]), settings |-> TestArg(t[4])]
                 => ret = <<"raised", NumberMismatchMsg(t[5])>>

(* The obs count matches and both the layout and the settings count do     *)
(* not: the layout is named.                                               *)
C15_Witness ==
    /\ FhdCalEnded
    /\ call[2] = [cal |-> TestArg(0), obs |-> TestArg(0), layout |-> TestArg(2),
                  settings |-> TestArg(2)]
    /\ ret = <<"raised", NumberMismatchMsg("layout")>>

(***************************************************************************)
(* Pairs of antenna numbers up to MaxAnt: every pair with attempt256, and  *)
(* the pairs with ant1 <= ant2 without.                                    *)
(***************************************************************************)
MaxAnt == 300

BaselineCall(a1, a2, attempt256) ==
    <<"antnums_to_baseline",
      [ant1 |-> a1, ant2 |-> a2, Nants_telescope |-> MaxAnt + 1,
       attempt256 |-> attempt256]>>

InitBaseline ==
    \E a1 \in 0..MaxAnt, a2 \in 0..MaxAnt, attempt256 \in BOOLEAN :
        /\ attempt256 \/ a1 <= a2
        /\ InitCall({BaselineCall(a1, a2, attempt256)})

NextBaseline == CallAntnumsToBaseline \/ CallBaselineToAntnums

SpecBaseline == InitBaseline /\ [][NextBaseline]_vars

Encoded == call # None /\ call[1] = "antnums_to_baseline" /\ ret # None

Decoded == call # None /\ call[1] = "baseline_to_antnums"

LegacyPair(a) == a.attempt256 /\ a.ant1 <= 255 /\ a.ant2 <= 255

ExtendedNumber(a) == 2048 * a.ant1 + a.ant2 + 65537

(***************************************************************************)
(* C16: baseline_to_antnums gives back the pair that antnums_to_baseline   *)
(* packed, in the extended scheme (ant1 <= ant2 up to MaxAnt) and in the   *)
(* legacy scheme (attempt256, both numbers up to 255); a legacy number is  *)
(* below 2**16, differs from the extended number of its pair, and an       *)
(* extended number is above 2**16, so that no number comes from both       *)
(* schemes.                                                                *)
(***************************************************************************)
C16_BaselineRoundTrip ==
    /\ Encoded =>
          IF LegacyPair(call[2])
          THEN /\ ret[2] < 65536
               /\ ret[2] # ExtendedNumber(call[2])
               /\ ret[2] = 256 * call[2].ant1 + call[2].ant2
          ELSE /\ ret[2] > 65536
               /\ ret[2] = ExtendedNumber(call[2])
    /\ Decoded =>
          ret[2] = <<call[2].made_from.ant1, call[2].made_from.ant2>>

(* The largest legacy pair and a pair beyond it have made the round trip.  *)
C16_Witness ==
    /\ Decoded
    /\ call[2].made_from.attempt256
    /\ call[2].made_from.ant1 = 255 /\ call[2].made_from.ant2 = 255
    /\ call[2].baseline = 65535
    /\ ret[2] = <<255, 255>>

(***************************************************************************)
(* polnum2str on every number from -8 to 4 (0 is no code), without an      *)
(* x_orientation and with one that is recognized, in either case, or not.  *)
(***************************************************************************)
Orientations ==
    {None, Some(<<"e">>), Some(<<"east">>), Some(<<"n">>), Some(<<"north">>),
     Some(<<"N">>), Some(<<"EAST">>), Some(<<"foo">>)}

PolCalls ==
    {<<"polnum2str", [num |-> c, x_orientation |-> xo]>> :
        c \in -8..4, xo \in Orientations}

InitPolFuncs == InitCall(PolCalls)

NextPolFuncs == CallPolnum2str \/ CallPolstr2num

SpecPolFuncs == InitPolFuncs /\ [][NextPolFuncs]_vars

PolCodes == (-8..-1) \cup (1..4)

(* test_pol_funcs and test_pol_funcs_x_orientation: the strings of the     *)
(* codes -8..-1 and 1..4, in this order                                    *)
TestPolNums == <<-8, -7, -6, -5, -4, -3, -2, -1, 1, 2, 3, 4>>

CircularAndStokes ==
    <<<<"l", "r">>, <<"r", "l">>, <<"l", "l">>, <<"r", "r">>, <<"p", "I">>,
      <<"p", "Q">>, <<"p", "U">>, <<"p", "V">>>>

TestPolStr(class) ==
    (CASE class = "e" -> <<<<"n", "e">>, <<"e", "n">>, <<"n", "n">>, <<"e", "e">>>>
       [] class = "n" -> <<<<"e", "n">>, <<"n", "e">>, <<"e", "e">>, <<"n", "n">>>>
       [] OTHER -> <<<<"y", "x">>, <<"x", "y">>, <<"y", "y">>, <<"x", "x">>>>)
    \o CircularAndStokes

OrientationClass(xo) ==
    IF xo \in {Some(<<"e">>), Some(<<"east">>), Some(<<"EAST">>)} THEN "e"
    ELSE IF xo \in {Some(<<"n">>), Some(<<"north">>), Some(<<"N">>)} THEN "n"
    ELSE IF xo = None THEN "none" ELSE "unrecognized"

ExpectedPolStr(code, xo) ==
    TestPolStr(OrientationClass(xo))[CHOOSE i \in 1..12 : TestPolNums[i] = code]

PolStrMade == call # None /\ call[1] = "polnum2str" /\ ret # None

PolNumMade == call # None /\ call[1] = "polstr2num"

(***************************************************************************)
(* C17: for each of the 12 codes and each x_orientation, polnum2str gives  *)
(* the string of the tests (under "e" the codes -8..-5 read ne, en, nn,    *)
(* ee, under "n" en, ne, ee, nn, otherwise yx, xy, yy, xx), which differ   *)
(* from code to code, and polstr2num gives the code back; an orientation   *)
(* that is not recognized gives the x/y strings with a warning, not an     *)
(* error, and a recognized or absent one gives no warning.                 *)
(***************************************************************************)
C17_PolRoundTrip ==
    /\ (PolStrMade /\ call[2].num \in PolCodes) =>
           /\ ret = <<"returned", ExpectedPolStr(call[2].num, call[2].x_orientation)>>
           /\ \A other \in PolCodes \ {call[2].num} :
                  ExpectedPolStr(other, call[2].x_orientation) # ret[2]
           /\ warns = IF OrientationClass(call[2].x_orientation) = "unrecognized"
                      THEN <<NotRecognizedWarning>> ELSE <<>>
    /\ PolNumMade => ret = <<"returned", call[2].made_from>>

(* The code -7 has made the round trip as "ne" under "north". *)
C17_Witness ==
    /\ PolNumMade
    /\ call[2].x_orientation = Some(<<"north">>)
    /\ call[2].pol = <<"n", "e">>
    /\ ret = <<"returned", -7>>

(***************************************************************************)
(* get_baseline_redundancies on up to MaxBls baselines: the first vector   *)
(* anywhere on a grid that reaches beyond the tolerances, the others near  *)
(* the origin, so that baselines group, stay apart or fall into            *)
(* overlapping groups.                                                     *)
(***************************************************************************)
MaxBls == 3

GridCoords == -3..3

OtherVecs == {<<0, 0, 0>>, <<1, 0, 0>>, <<2, 0, 0>>, <<0, -1, 1>>}

BaselineNumbers == [i \in 1..MaxBls |-> 67585 + i]

RedundancyCall(vs, tol, wc) ==
    <<"get_baseline_redundancies",
      [baselines |-> SubSeq(BaselineNumbers, 1, Len(vs)), baseline_vecs |-> vs,
       tol |-> tol, with_conjugates |-> wc]>>

InitRedundancy ==
    \E u \in GridCoords, v \in GridCoords, w \in GridCoords,
       rest \in SeqsUpTo(OtherVecs, MaxBls - 1), tol \in {1, 2}, wc \in BOOLEAN :
        InitCall({RedundancyCall(<<<<u, v, w>>>> \o rest, tol, wc)})

SpecRedundancy == InitRedundancy /\ [][CallGetBaselineRedundancies]_vars

RedundanciesReturned ==
    /\ call # None
    /\ call[1] = "get_baseline_redundancies"
    /\ ret # None
    /\ ret[1] = "returned"

InConjugates(b) ==
    \E k \in DOMAIN ret[2].conjugates[1] : ret[2].conjugates[1][k] = b

NearZero(x, tol) == -tol <= x /\ x <= tol

(***************************************************************************)
(* C18: with with_conjugates the returned conjugates hold the number of a  *)
(* baseline with vector (u, v, w) exactly when u < -tol, or |u| <= tol and *)
(* v < -tol, or |u| <= tol and |v| <= tol and w < -tol; a baseline whose   *)
(* three components are all within tol of zero is not among them.          *)
(***************************************************************************)
C18_Conjugates ==
    (RedundanciesReturned /\ call[2].with_conjugates) =>
        \A i \in DOMAIN call[2].baselines :
            LET u == call[2].baseline_vecs[i][1]
                v == call[2].baseline_vecs[i][2]
                w == call[2].baseline_vecs[i][3]
                tol == call[2].tol
            IN  /\ InConjugates(call[2].baselines[i])
                     <=> \/ u < -tol
                         \/ NearZero(u, tol) /\ v < -tol
                         \/ NearZero(u, tol) /\ NearZero(v, tol) /\ w < -tol
                /\ (NearZero(u, tol) /\ NearZero(v, tol) /\ NearZero(w, tol))
                     => ~InConjugates(call[2].baselines[i])

(* A baseline with u within tol of zero and v below -tol was flipped, next *)
(* to one at the origin that was not.                                      *)
C18_Witness ==
    /\ RedundanciesReturned
    /\ call[2].with_conjugates
    /\ call[2].tol = 2
    /\ call[2].baseline_vecs = <<<<-2, -3, 3>>, <<0, 0, 0>>>>
    /\ ret[2].conjugates = Some(<<67586>>)

(***************************************************************************)
(* _adj_list on lists of up to MaxVecs vectors, equal, near and far ones,  *)
(* with tolerances from 0 and with n_blocks left out, 1, and up to         *)
(* MaxBlocks, more than there are vectors.                                 *)
(***************************************************************************)
MaxVecs == 3

MaxBlocks == 4

AdjVecs == {<<0, 0, 0>>, <<1, 0, 0>>, <<2, 0, 0>>, <<0, 1, 1>>}

AdjCalls ==
    {<<"_adj_list", [vecs |-> vs, tol |-> tol, n_blocks |-> nb]>> :
        vs \in SeqsUpTo(AdjVecs, MaxVecs), tol \in 0..2,
        nb \in {None} \cup {Some(k) : k \in 1..MaxBlocks}}

InitAdj == InitCall(AdjCalls)

SpecAdj == InitAdj /\ [][Call_adj_list]_vars

AdjReturned == call # None /\ call[1] = "_adj_list" /\ ret # None

Below(vecs, i, j, tol) ==
    LET d == [c \in 1..3 |-> vecs[i][c] - vecs[j][c]]
    IN  tol > 0 /\ d[1] * d[1] + d[2] * d[2] + d[3] * d[3] < tol * tol

(***************************************************************************)
(* C19: for any list of vectors, any tol and any n_blocks, adj[i] is       *)
(* exactly the set of the indices j whose distance to vector i is below    *)
(* tol, i is in adj[i], and j is in adj[i] exactly when i is in adj[j].    *)
(***************************************************************************)
C19_ExactlyBelowTol ==
    AdjReturned =>
        LET adj == ret[2]
            vecs == call[2].vecs
        IN  /\ DOMAIN adj = DOMAIN vecs
            /\ \A i \in DOMAIN vecs :
                   /\ adj[i] = {j \in DOMAIN vecs : Below(vecs, i, j, call[2].tol)}
                   /\ i \in adj[i]
                   /\ \A j \in DOMAIN vecs : j \in adj[i] <=> i \in adj[j]

(***************************************************************************)
(* C19, amended: for any list of vectors, any tol above 0 and any          *)
(* n_blocks, adj[i] is exactly the set of the indices j whose distance to  *)
(* vector i is below tol, i is in adj[i], j is in adj[i] exactly when i is *)
(* in adj[j], and the result does not depend on n_blocks.  (With tol 0 no  *)
(* index is below tol, not even i.)                                        *)
(***************************************************************************)
C19_AdjacencyLists ==
    (AdjReturned /\ call[2].tol > 0) =>
        LET adj == ret[2]
            vecs == call[2].vecs
        IN  /\ DOMAIN adj = DOMAIN vecs
            /\ \A i \in DOMAIN vecs :
                   /\ adj[i] = {j \in DOMAIN vecs : Below(vecs, i, j, call[2].tol)}
                   /\ i \in adj[i]
                   /\ \A j \in DOMAIN vecs : j \in adj[i] <=> i \in adj[j]

(* Three vectors in three blocks of four, the first two within tol of each *)
(* other and the third of the second only.                                 *)
C19_Witness ==
    /\ AdjReturned
    /\ call[2].vecs = <<<<0, 0, 0>>, <<1, 0, 0>>, <<2, 0, 0>>>>
    /\ call[2].tol = 2
    /\ call[2].n_blocks = Some(4)
    /\ ret[2] = <<{1, 2}, {1, 2, 3}, {2, 3}>>

(***************************************************************************)
(* uvcalibrate on small objects: two baseline-times of antennas (1, 2) and *)
(* (1, 3), two frequencies, polarization xx, and a UVCal object that has   *)
(* every antenna, time, frequency and Jones term of the data or lacks one  *)
(* of them.  The gains are Gaussian integers other than 0.                 *)
(***************************************************************************)
MaxGainPart == 1

MaxVisPart == 1

GainValues == {<<re, im, 1>> : re \in 0..MaxGainPart, im \in 0..MaxGainPart} \ {<<0, 0, 1>>}

VisValues == {<<re, im, 1>> : re \in 0..MaxVisPart, im \in 0..MaxVisPart}

CalShapes == {"full", "no_ant_3", "number_only", "no_freq_20", "other_time", "no_jones", "two_times", "broadcast"}

UVDataOf(v, vis_units, shape, flags) ==
    [ant_1_array |-> <<1, 1>>,
     ant_2_array |-> <<2, 3>>,
     time_array |-> IF shape \in {"two_times", "broadcast"} THEN <<1, 2>> ELSE <<1, 1>>,
     freq_array |-> <<10, 20>>,
     polarization_array |-> <<-5>>,
     antenna_numbers |-> <<1, 2, 3>>,
     antenna_names |-> <<"HH1", "HH2", "HH3">>,
     data_array |-> [blt \in 1..2 |-> [freq \in 1..2 |-> [pol \in 1..1 |->
                        IF blt = freq THEN v ELSE <<v[2], v[1] + 1, 1>>]]],
     flag_array |-> [blt \in 1..2 |-> [freq \in 1..2 |-> [pol \in 1..1 |->
                        <<blt, freq>> \in flags]]],
     vis_units |-> vis_units]

UVCalOf(g1, g2, gain_convention, gain_scale, shape, flags) ==
    LET ant_array == IF shape = "no_ant_3" THEN <<1, 2>> ELSE <<1, 2, 3>>
        freq_array == IF shape = "no_freq_20" THEN <<10>> ELSE <<10, 20>>
        time_array == CASE shape = "other_time" -> <<2>>
                        [] shape = "two_times" -> <<1, 2>>
                        [] OTHER -> <<1>>
        Shaped(Entry(_, _)) ==
            [a \in DOMAIN ant_array |-> [f \in DOMAIN freq_array |->
                [t \in DOMAIN time_array |-> [j \in 1..1 |-> Entry(a, f + t)]]]]
        Gain(a, n) == IF (a + n) % 2 = 0 THEN g1 ELSE g2
        Flag(a, n) == <<a, n>> \in flags
    IN  [ant_array |-> ant_array,
         antenna_names |-> IF shape = "number_only"
                           THEN <<"ant1", "ant2", "ant3">>
                           ELSE [a \in DOMAIN ant_array |-> <<"HH1", "HH2", "HH3">>[a]],
         freq_array |-> freq_array,
         time_array |-> time_array,
         time_range |-> None,
         jones_array |-> IF shape = "no_jones" THEN <<-6>> ELSE <<-5>>,
         gain_array |-> Shaped(Gain),
         flag_array |-> Shaped(Flag),
         gain_convention |-> gain_convention,
         gain_scale |-> gain_scale]

(* the defaults of the keyword arguments, and each of them changed alone *)
DefaultOptions == [inplace |-> TRUE, prop_flags |-> TRUE, flag_missing |-> FALSE, Dterm_cal |-> FALSE, ant_check |-> TRUE]

CalOptions == {DefaultOptions} \cup {[DefaultOptions EXCEPT ![k] = ~@] : k \in DOMAIN DefaultOptions}

UvcalibrateCall(uvdata, uvcal, o) ==
    <<"uvcalibrate",
      [uvdata |-> uvdata, uvcal |-> uvcal, inplace |-> o.inplace,
       prop_flags |-> o.prop_flags, flag_missing |-> o.flag_missing,
       Dterm_cal |-> o.Dterm_cal, undo |-> FALSE, ant_check |-> o.ant_check,
       made_from |-> None]>>

InitCalibrate ==
    \E v \in VisValues, g1, g2 \in GainValues, shape \in CalShapes, o \in CalOptions :
        \E gain_convention \in {"divide", "multiply"}, gain_scale \in {None, Some("Jy")} :
            \E vis_units \in {"UNCALIB", "Jy"} :
                InitCall({UvcalibrateCall(UVDataOf(v, vis_units, shape, {<<1, 1>>}),
                                          UVCalOf(g1, g2, gain_convention, gain_scale,
                                                  shape, {<<2, 3>>}),
                                          o)})

NextCalibrate ==
    \/ CallUvcalibrate
    \/ CallUvcalibrateUndo

SpecCalibrate == InitCalibrate /\ [][NextCalibrate]_vars

(* uvcalibrate with undo=True has returned, on what uvcalibrate made *)
Undone ==
    /\ call # None
    /\ call[1] = "uvcalibrate"
    /\ call[2].undo
    /\ ret # None
    /\ ret[1] = "returned"

GainValuesOrZero == GainValues \cup {<<0, 0, 1>>}

DataFlagPatterns == {{}, {<<1, 1>>}, {<<1, 2>>, <<2, 2>>}}

GainFlagPatterns == {{}, {<<1, 2>>}, {<<2, 3>>}, {<<3, 2>>, <<3, 3>>}}

FlagOptions == [inplace : {FALSE}, prop_flags : BOOLEAN, flag_missing : BOOLEAN, Dterm_cal : {FALSE}, ant_check : BOOLEAN]

InitCalFlags ==
    \E g1 \in GainValuesOrZero, g2 \in {<<1, 0, 1>>, <<0, 0, 1>>}, shape \in CalShapes,
       o \in FlagOptions :
        \E gain_convention \in {"divide", "multiply"} :
            \E dflags \in DataFlagPatterns, gflags \in GainFlagPatterns :
                InitCall({UvcalibrateCall(UVDataOf(<<1, 1, 1>>, "UNCALIB", shape, dflags),
                                          UVCalOf(g1, g2, gain_convention, None, shape, gflags),
                                          o)})

SpecCalFlags == InitCalFlags /\ [][CallUvcalibrate]_vars

(* uvcalibrate has returned from its first call *)
CalibratedOnce ==
    /\ call # None
    /\ call[1] = "uvcalibrate"
    /\ ~call[2].undo
    /\ ret # None
    /\ ret[1] = "returned"

VisSamples == (1..2) \X (1..2)

InFlag(s) == call[2].made_from[1].flag_array[s[1]][s[2]][1]

OutFlag(s) == ret[2].uvdata.flag_array[s[1]][s[2]][1]

AntOf(s, side) ==
    IF side = 1
    THEN call[2].made_from[1].ant_1_array[s[1]]
    ELSE call[2].made_from[1].ant_2_array[s[1]]

(* the entry of uvcal's flag_array for one antenna of a sample is True *)
GainIsFlagged(s, side) ==
    LET uvd == call[2].made_from[1]
        uvc == call[2].uvcal
    IN  \E a \in DOMAIN uvc.ant_array, f \in DOMAIN uvc.freq_array, t \in DOMAIN uvc.time_array :
            /\ uvc.ant_array[a] = AntOf(s, side)
            /\ uvc.freq_array[f] = uvd.freq_array[s[2]]
            /\ \/ uvc.time_array[t] = uvd.time_array[s[1]]
               \/ Len(uvc.time_array) = 1 /\ uvd.time_array[1] # uvd.time_array[2]
            /\ uvc.jones_array = <<-5>>
            /\ uvc.flag_array[a][f][t][1]

(* the name of the antenna is on the UVCal; with ant_check its number will do *)
Present(ant) ==
    LET uvd == call[2].made_from[1]
        uvc == call[2].uvcal
    IN  \/ \E i \in DOMAIN uvd.antenna_numbers, k \in DOMAIN uvc.antenna_names :
               uvd.antenna_numbers[i] = ant /\ uvc.antenna_names[k] = uvd.antenna_names[i]
        \/ /\ call[2].ant_check
           /\ \E k \in DOMAIN uvc.ant_array : uvc.ant_array[k] = ant

BothPresent(s) == Present(AntOf(s, 1)) /\ Present(AntOf(s, 2))

PropagatedFlags ==
    (CalibratedOnce /\ call[2].prop_flags) =>
        \A s \in VisSamples :
            (InFlag(s) \/ GainIsFlagged(s, 1) \/ GainIsFlagged(s, 2)) => OutFlag(s)

PropagatedFlagsOfPresent ==
    (CalibratedOnce /\ call[2].prop_flags) =>
        \A s \in VisSamples :
            (BothPresent(s) /\ (GainIsFlagged(s, 1) \/ GainIsFlagged(s, 2))) => OutFlag(s)

NoFlagCleared ==
    CalibratedOnce => \A s \in VisSamples : InFlag(s) => OutFlag(s)

(***************************************************************************)
(* C21, as stated: with prop_flags=True a visibility that was flagged, or  *)
(* whose gain is flagged on antenna 1 or 2, is flagged in the output; with *)
(* prop_flags=False the output flag of a visibility whose antennas are     *)
(* both on the UVCal is its input flag; no input flag is cleared.          *)
(***************************************************************************)
C21_FlagsAsStated ==
    /\ PropagatedFlags
    /\ NoFlagCleared
    /\ (CalibratedOnce /\ ~call[2].prop_flags) =>
           \A s \in VisSamples : BothPresent(s) => (OutFlag(s) = InFlag(s))

(***************************************************************************)
(* C21, amended: with prop_flags=True a visibility whose antennas are both *)
(* on the UVCal and whose gain is flagged on antenna 1 or 2 is flagged in  *)
(* the output (a baseline with an antenna that is not on the UVCal is      *)
(* flagged or left alone as a missing one); with prop_flags=False the      *)
(* output flag of a visibility whose antennas are both on the UVCal is its *)
(* input flag; no input flag is cleared.                                   *)
(***************************************************************************)
C21_FlagPropagation ==
    /\ PropagatedFlagsOfPresent
    /\ NoFlagCleared
    /\ (CalibratedOnce /\ ~call[2].prop_flags) =>
           \A s \in VisSamples : BothPresent(s) => (OutFlag(s) = InFlag(s))

(* prop_flags=True flagged a sample for the flagged gain of antenna 2 only *)
C21_Witness ==
    /\ CalibratedOnce
    /\ call[2].prop_flags
    /\ call[2].ant_check
    /\ \E s \in VisSamples :
           /\ ~InFlag(s)
           /\ ~GainIsFlagged(s, 1)
           /\ GainIsFlagged(s, 2)
           /\ OutFlag(s)

(* the deprecation warnings of the antenna matching *)
AntennaDeprecationWarnings ==
    {w \in ret[2].warnings :
        /\ w[1] = "DeprecationWarning"
        /\ w[2][1] \in {"All antenna names with data on UVData are missing ",
                         "Antennas ",
                         "Antenna names missing on UVCal, matched by number"}}

WithoutAntCheck == CalibratedOnce /\ ~call[2].ant_check

SomeAntennaNotFound == \E s \in VisSamples : ~BothPresent(s)

FlagDataOf(pols, flags) ==
    [baseline_array |-> <<1, 2, 1, 2>>,
     time_array |-> <<1, 1, 2, 2>>,
     freq_array |-> <<10, 20>>,
     polarization_array |-> pols,
     flag_array |-> [blt \in 1..4 |-> [freq \in 1..2 |-> [pol \in DOMAIN pols |->
                        <<blt, freq>> \in flags]]]]

(* the flags of a mask are the <<baseline, time, frequency>> in flags; a   *)
(* waterfall has the flags of any baseline (to_waterfall(method="or"))     *)
UVFlagOf(mode, type, bls, times, freqs, pols, flags) ==
    LET rows == IF type = "waterfall"
                THEN [k \in DOMAIN times |-> <<0, times[k]>>]
                ELSE [k \in 1..(Len(bls) * Len(times)) |->
                         <<bls[((k - 1) % Len(bls)) + 1],
                           times[((k - 1) \div Len(bls)) + 1]>>]
    IN  [mode |-> mode,
         type |-> type,
         baseline_array |-> IF type = "waterfall" THEN <<>> ELSE [k \in DOMAIN rows |-> rows[k][1]],
         time_array |-> [k \in DOMAIN rows |-> rows[k][2]],
         freq_array |-> freqs,
         polarization_array |-> pols,
         flag_array |-> [k \in DOMAIN rows |-> [f \in DOMAIN freqs |-> [p \in DOMAIN pols |->
                            \E c \in flags :
                                /\ c[1] = rows[k][1] \/ type = "waterfall"
                                /\ c[2] = rows[k][2]
                                /\ c[3] = freqs[f]]]]]

DataFlagSets == {{}, {<<1, 1>>}, {<<2, 1>>, <<2, 2>>, <<3, 2>>}}

MaskFlagSets == {{}, {<<1, 1, 10>>}, {<<1, 1, 10>>, <<1, 2, 20>>, <<2, 2, 10>>}}

MaskBaselines == {<<1, 2>>, <<1>>}

MaskTimes == {<<1, 2>>, <<1>>, <<2>>, <<3>>, <<1, 3>>, <<1, 2, 3>>}

MaskFreqs == {<<10, 20>>, <<10>>, <<11>>, <<10, 21>>, <<10, 20, 30>>}

ApplyUvflagCall(uvd, uvf, unflag_first, flag_missing, force_pol, inplace) ==
    <<"apply_uvflag",
      [uvd |-> uvd, uvf |-> uvf, inplace |-> inplace, unflag_first |-> unflag_first,
       flag_missing |-> flag_missing, force_pol |-> force_pol, made_from |-> None]>>

InitApplyUvflag ==
    \E dflags \in DataFlagSets, mflags \in MaskFlagSets, bls \in MaskBaselines :
        \E times \in MaskTimes, freqs \in MaskFreqs, type \in {"baseline", "waterfall"} :
            \E mode \in {"flag", "metric"}, pols \in {<<-5>>, <<-5, -6>>} :
                \E unflag_first, flag_missing, force_pol, inplace \in BOOLEAN :
                    InitCall({ApplyUvflagCall(FlagDataOf(pols, dflags),
                                              UVFlagOf(mode, type, bls, times, freqs, <<-5>>, mflags),
                                              unflag_first, flag_missing, force_pol, inplace)})

SpecApplyUvflag == InitApplyUvflag /\ [][CallApplyUvflag]_vars

ApplyUvflagEnded == call # None /\ call[1] = "apply_uvflag" /\ ret # None

(* the frequencies, times and polarizations of the mask are those of the data *)
AxesMatch ==
    /\ call[2].uvf.freq_array = call[2].made_from[1].freq_array
    /\ SeqRange(call[2].uvf.time_array) = SeqRange(call[2].made_from[1].time_array)
    /\ call[2].uvf.polarization_array = call[2].made_from[1].polarization_array

FlagSamples == (1..4) \X (1..2)

InputFlag(s) == call[2].made_from[1].flag_array[s[1]][s[2]][1]

OutputFlag(s) == ret[2].flag_array[s[1]][s[2]][1]

InMask(s) ==
    \/ call[2].uvf.type = "waterfall"
    \/ \E k \in DOMAIN call[2].uvf.baseline_array :
           call[2].uvf.baseline_array[k] = call[2].made_from[1].baseline_array[s[1]]

(* the flag of the mask at the baseline, time and frequency of a sample *)
MaskOf(s) ==
    \E k \in DOMAIN call[2].uvf.time_array :
        /\ call[2].uvf.time_array[k] = call[2].made_from[1].time_array[s[1]]
        /\ \/ call[2].uvf.type = "waterfall"
           \/ call[2].uvf.baseline_array[k] = call[2].made_from[1].baseline_array[s[1]]
        /\ call[2].uvf.flag_array[k][s[2]][1]

FlagModeEnded == ApplyUvflagEnded /\ call[2].uvf.mode = "flag"

SingleFrequency == Len(call[2].uvf.freq_array) = 1

SingleTime == Cardinality(SeqRange(call[2].uvf.time_array)) = 1

FrequenciesDiffer == call[2].uvf.freq_array # call[2].made_from[1].freq_array

TimesDiffer == SeqRange(call[2].uvf.time_array) # SeqRange(call[2].made_from[1].time_array)

(* the flag of the mask for a sample, a single time or frequency of the    *)
(* mask standing for every time or frequency of the data                   *)
BroadcastMaskOf(s) ==
    \E k \in DOMAIN call[2].uvf.time_array :
        /\ SingleTime \/ call[2].uvf.time_array[k] = call[2].made_from[1].time_array[s[1]]
        /\ \/ call[2].uvf.type = "waterfall"
           \/ call[2].uvf.baseline_array[k] = call[2].made_from[1].baseline_array[s[1]]
        /\ call[2].uvf.flag_array[k][IF SingleFrequency THEN 1 ELSE s[2]][1]

MaxRectLen == 4

RectValues == {1, 2}

RectArrays == UNION {[1..n -> RectValues] : n \in 1..MaxRectLen}

Overrides == {None, Some(TRUE), Some(FALSE)}

RectCall(ta, ut, ba, ub, rect, faster) ==
    <<"configure_blt_rectangularity",
      [time_array |-> ta, unique_times |-> ut, baseline_array |-> ba,
       unique_baselines |-> ub, blts_are_rectangular |-> rect,
       time_axis_faster_than_bls |-> faster]>>

InitRect ==
    \E rect \in Overrides, faster \in Overrides :
        \/ \E ta \in RectArrays, ba \in RectArrays :
               /\ Len(ta) = Len(ba)
               /\ InitCall({RectCall(Some(ta), None, Some(ba), None, rect, faster)})
        \/ \E ta, ut, ba, ub \in {None, Some(<<1, 2>>)} :
               InitCall({RectCall(ta, ut, ba, ub, rect, faster)})

SpecRect == InitRect /\ [][CallConfigureBltRectangularity]_vars

RectEnded == call # None /\ call[1] = "configure_blt_rectangularity" /\ ret # None

Given(arg) == call[2][arg] # None

FullPairOnly ==
    /\ Given("time_array") /\ Given("baseline_array")
    /\ ~Given("unique_times") /\ ~Given("unique_baselines")

UniquePairOnly ==
    /\ Given("unique_times") /\ Given("unique_baselines")
    /\ ~Given("time_array") /\ ~Given("baseline_array")

RectangularityMessages ==
    {EitherBaselineMsg, EitherTimeMsg, OnlyOneBaselineMsg, OnlyOneTimeMsg,
     UniqueTimesNeedBaselinesMsg, UniqueBaselinesNeedTimesMsg,
     UniqueMustBeRectangularMsg}

(***************************************************************************)
(* C25: configure_blt_rectangularity returns only when exactly time_array  *)
(* and baseline_array, or exactly unique_times and unique_baselines, are   *)
(* given; the other 14 combinations raise ValueError, and so does the      *)
(* unique pair with blts_are_rectangular=False.                            *)
(***************************************************************************)
C25_ArgumentPairs ==
    RectEnded =>
        /\ ret[1] = "returned" <=>
               \/ FullPairOnly
               \/ UniquePairOnly /\ call[2].blts_are_rectangular # Some(FALSE)
        /\ ret[1] = "raised" => ret[2] \in RectangularityMessages

(* unique_times with baseline_array: an error, though one argument of each *)
(* pair is given                                                           *)
C25_Witness ==
    /\ RectEnded
    /\ Given("unique_times") /\ Given("baseline_array")
    /\ ~Given("time_array") /\ ~Given("unique_baselines")
    /\ ret = <<"raised", UniqueTimesNeedBaselinesMsg>>

FullPairReturned == RectEnded /\ FullPairOnly /\ ret[1] = "returned"

(* a complete grid, the baselines running fastest within each time *)
BaselinesFastestGrid(times, bls) ==
    LET nbls == Cardinality(SeqRange(bls))
        ntimes == Cardinality(SeqRange(times))
    IN  /\ Len(times) = nbls * ntimes
        /\ \A k \in DOMAIN times :
               /\ times[k] = times[((k - 1) \div nbls) * nbls + 1]
               /\ bls[k] = bls[((k - 1) % nbls) + 1]

(* the transposed grid: the times running fastest within each baseline *)
TimesFastestGrid(times, bls) == BaselinesFastestGrid(bls, times)

(***************************************************************************)
(* C26: with time_array and baseline_array of at least two times and two   *)
(* baselines and no override, a complete grid with the baselines running   *)
(* fastest is reported rectangular with time_axis_faster_than_bls False,   *)
(* the transposed grid rectangular with it True, and every other ordering  *)
(* non-rectangular; n_baselines and n_times are the numbers of distinct    *)
(* baselines and times, the returned arrays have the same length, and      *)
(* blts_are_rectangular=False is returned as given.                        *)
(***************************************************************************)
C26_GridDetection ==
    FullPairReturned =>
        LET times == call[2].time_array[1]
            bls == call[2].baseline_array[1]
            out == ret[2]
        IN  /\ out[1] = Cardinality(SeqRange(bls))
            /\ out[2] = Cardinality(SeqRange(times))
            /\ Len(out[5]) = Len(out[6])
            /\ call[2].blts_are_rectangular = Some(FALSE) => ~out[3]
            /\ ( /\ call[2].blts_are_rectangular = None
                 /\ call[2].time_axis_faster_than_bls = None
                 /\ out[1] >= 2
                 /\ out[2] >= 2 ) =>
                   IF BaselinesFastestGrid(times, bls)
                   THEN out[3] /\ ~out[4]
                   ELSE IF TimesFastestGrid(times, bls)
                   THEN out[3] /\ out[4]
                   ELSE ~out[3]

(* the same without the orderings that are not grids *)
GridsDetected ==
    FullPairReturned =>
        LET times == call[2].time_array[1]
            bls == call[2].baseline_array[1]
            out == ret[2]
        IN  /\ out[1] = Cardinality(SeqRange(bls))
            /\ out[2] = Cardinality(SeqRange(times))
            /\ Len(out[5]) = Len(out[6])
            /\ call[2].blts_are_rectangular = Some(FALSE) => ~out[3]
            /\ ( /\ call[2].blts_are_rectangular = None
                 /\ call[2].time_axis_faster_than_bls = None
                 /\ out[1] >= 2
                 /\ out[2] >= 2 ) =>
                   /\ BaselinesFastestGrid(times, bls) => out[3] /\ ~out[4]
                   /\ TimesFastestGrid(times, bls) => out[3] /\ out[4]

(* times 1, 1, 2, 2 with baselines 1, 2, 2, 2: baseline 1 is never seen at *)
(* time 2, and the first two entries have one time                         *)
NotAGridReportedRectangular ==
    /\ FullPairReturned
    /\ call[2].time_array = Some(<<1, 1, 2, 2>>)
    /\ call[2].baseline_array = Some(<<1, 2, 2, 2>>)
    /\ call[2].blts_are_rectangular = None
    /\ call[2].time_axis_faster_than_bls = None
    /\ ret[2][3]

(***************************************************************************)
(* The time of each row (fhd.py lines 286-307).  The obs structure holds   *)
(* one JDATE and one BIN_OFFSET per integration; BIN_OFFSET starts at row  *)
(* 0 and does not decrease, as the row offsets of the integrations of an   *)
(* FHD run do.  N_TIME is free, so that it can differ from the number of   *)
(* JDATE entries.                                                          *)
(***************************************************************************)
MaxTimes == 3

(* n distinct Julian dates, in order *)
JDates(n) == [i \in 1..n |-> 9 + i]

BinOffsets(n) ==
    {b \in [1..n -> 0..NBlts] :
        /\ b[1] = 0
        /\ \A i \in 1..(n - 1) : b[i] <= b[i + 1]}

InputsTimes ==
    {With(DefaultInputs,
          [filelist |-> <<f_obs, vis_xx, f_params, f_flags>>,
           read_data |-> rd, background_lsts |-> bg,
           obs |-> [src \in ObsSources |->
                       With(ObsDefault,
                            [N_TIME |-> nt, JDATE |-> JDates(n),
                             BIN_OFFSET |-> b])]]) :
        rd \in BOOLEAN, bg \in BOOLEAN, nt \in 1..MaxTimes,
        n \in 1..MaxTimes, b \in UNION {BinOffsets(m) : m \in 1..MaxTimes}}

InitTimes ==
    InitWith({i \in InputsTimes :
                 Len(i.obs["obs"].BIN_OFFSET) = Len(i.obs["obs"].JDATE)})

SpecTimes == InitTimes /\ [][Next]_vars

TimesSet == self.time_array # None

(* the integration of row r: the one whose offset is the last at or below r *)
IntegrationOfRow(r) ==
    LET bin_offset == this_obs.BIN_OFFSET
        n == Len(bin_offset)
    IN  {ii \in 1..n :
            /\ bin_offset[ii] <= r
            /\ (ii < n => r < bin_offset[ii + 1])}

(* C27: once read_fhd has set the metadata, time_array has one entry per   *)
(* row, none of them the initial 0; with N_TIME = 1 every row holds the     *)
(* first JDATE, otherwise row r holds the JDATE of the one integration ii  *)
(* with BIN_OFFSET[ii] <= r < BIN_OFFSET[ii + 1], the last integration      *)
(* running to the end of the array; and an N_TIME that differs from the    *)
(* number of JDATE entries adds the Ntimes warning, once, and raises       *)
(* nothing.                                                                *)
C27_TimeArray ==
    TimesSet =>
        LET time_array == self.time_array[1]
            int_times == this_obs.JDATE
        IN  /\ DOMAIN time_array = 0..(inp.params_Nblts - 1)
            /\ \A r \in DOMAIN time_array :
                  /\ time_array[r] # 0
                  /\ IF this_obs.N_TIME = 1
                     THEN time_array[r] = int_times[1]
                     ELSE /\ Cardinality(IntegrationOfRow(r)) = 1
                          /\ \A ii \in IntegrationOfRow(r) :
                                time_array[r] = int_times[ii]
            /\ Cardinality({k \in DOMAIN warns : warns[k] = NtimesWarning})
                  = IF this_obs.N_TIME # Len(int_times) THEN 1 ELSE 0
            /\ self.Ntimes = Some(this_obs.N_TIME)
            /\ (pc = "layout" => exc = None)

(* a read with two integrations of one row each, and one with more JDATE   *)
(* entries than N_TIME that went on to its end                             *)
C27_Witness ==
    /\ pc = "done"
    /\ exc = None
    /\ this_obs.N_TIME = 2
    /\ this_obs.JDATE = <<10, 11, 12>>
    /\ this_obs.BIN_OFFSET = <<0, 1, 1>>
    /\ self.time_array = Some([r \in 0..1 |-> IF r = 0 THEN 10 ELSE 12])

(***************************************************************************)
(* The worker and the main path between line 532 and lines 625-626.        *)
(***************************************************************************)
(* the worker has been started and the main path has not joined it *)
WorkerNotJoined == proc # "none" /\ ~joined

(* a step of the worker: the one step that ends it *)
WorkerStep == proc = "running" /\ proc' = "finished"

(* what the worker reads *)
WorkerReads == {"time_array", "telescope_location"}

(* what the worker writes *)
WorkerWrites == {"lst_array"}

(* a step of the main path while the worker is started and not joined      *)
(* leaves alone what the worker reads and what it writes                   *)
MainPathKeepsClear ==
    (WorkerNotJoined /\ ~WorkerStep) =>
        \A a \in WorkerReads \cup WorkerWrites : self'[a] = self[a]

(* a step of the worker sets lst_array from what it reads, and nothing else *)
WorkerWritesLstsOnly ==
    WorkerStep =>
        /\ self'.lst_array = Some(LstArray(self))
        /\ \A a \in Attributes \ WorkerWrites : self'[a] = self[a]
        /\ UNCHANGED <<inp, pc, idx, fileVars, readVars, joined, filled, warns, exc>>

(* check() and the normal return come after the join, with the lst_array   *)
(* that follows from the time_array and the location of the object         *)
JoinedBeforeCheck ==
    (inp.background_lsts /\ pc \in {"check", "done"}) =>
        /\ joined
        /\ proc = "finished"
        /\ self.lst_array = Some(LstArray(self))

(* C28: with background_lsts, from the start of the worker to its join no  *)
(* step of the main path changes time_array or the telescope location,     *)
(* which the worker reads, or lst_array, which it writes; the worker       *)
(* changes lst_array only; check() and the normal return come after the    *)
(* join; so the object that is returned holds the lst_array of its own     *)
(* time_array and location, whenever the worker ran.                       *)
C28_NoInterference ==
    /\ [][MainPathKeepsClear]_vars
    /\ [][WorkerWritesLstsOnly]_vars
    /\ []JoinedBeforeCheck

(* the worker has ended while the main path, past the phasing, has not     *)
(* reached the join                                                        *)
C28_Witness ==
    /\ inp.background_lsts
    /\ pc = "history"
    /\ proc = "finished"
    /\ ~joined
    /\ self.lst_array = Some(LstArray(self))
    /\ self.phase_type = Some("phased")

(***************************************************************************)
(* baseline_index_flip, once and twice, on the baseline number of every    *)
(* pair of antenna numbers up to MaxAnt that antnums_to_baseline encodes.  *)
(***************************************************************************)
NextFlip == CallAntnumsToBaseline \/ CallBaselineIndexFlip

SpecFlip == InitBaseline /\ [][NextFlip]_vars

FlippedOnce ==
    call # None /\ call[1] = "baseline_index_flip" /\ "ant1" \in DOMAIN call[2].made_from

FlippedTwice ==
    call # None /\ call[1] = "baseline_index_flip" /\ "baseline" \in DOMAIN call[2].made_from

(* the call of antnums_to_baseline that the flipped number comes from *)
EncodedPair ==
    IF FlippedOnce THEN call[2].made_from ELSE call[2].made_from.made_from

(* C29: for every baseline number b that antnums_to_baseline gives, in the *)
(* legacy scheme or in the extended one, baseline_index_flip(b, N) decodes *)
(* to the pair of b with ant1 and ant2 exchanged, and                      *)
(* baseline_index_flip(baseline_index_flip(b, N), N) is b.                 *)
C29_FlipInvolution ==
    /\ FlippedOnce =>
          baseline_to_antnums(ret[2], call[2].Nants_telescope)
              = <<EncodedPair.ant2, EncodedPair.ant1>>
    /\ FlippedTwice => ret[2] = call[2].made_from.baseline

(* what holds: the flipped number decodes to the exchanged pair and is the *)
(* extended number of that pair, so that two flips give back an extended   *)
(* number and turn a legacy number into the extended number of its pair    *)
FlipSwapsAndExtends ==
    /\ FlippedOnce =>
          /\ baseline_to_antnums(ret[2], call[2].Nants_telescope)
                = <<EncodedPair.ant2, EncodedPair.ant1>>
          /\ ret[2] = 2048 * EncodedPair.ant2 + EncodedPair.ant1 + 65537
    /\ FlippedTwice =>
          /\ ret[2] = ExtendedNumber(EncodedPair)
          /\ baseline_to_antnums(ret[2], call[2].Nants_telescope)
                = <<EncodedPair.ant1, EncodedPair.ant2>>
          /\ ret[2] = call[2].made_from.baseline <=> ~LegacyPair(EncodedPair)

(* two flips of a legacy number have given another number *)
LegacyNumberNotRestored ==
    /\ FlippedTwice
    /\ LegacyPair(EncodedPair)
    /\ call[2].made_from.baseline = 256 * EncodedPair.ant1 + EncodedPair.ant2
    /\ ret[2] # call[2].made_from.baseline

(***************************************************************************)
(* The source of the obs structure.  File lists with a params and a flags  *)
(* file, up to MaxObsFiles obs files and the data files of xx and yy in    *)
(* either order, each file with an obs structure of its own OBSRA.         *)
(***************************************************************************)
MaxObsFiles == 2

f_obs_2 == <<"b", "_obs", ".sav">>

ObsFileLists ==
    {[i \in 1..n |-> IF i = 1 THEN f_obs ELSE f_obs_2] : n \in 0..MaxObsFiles}

DataFileLists == {<<vis_xx>>, <<vis_yy>>, <<vis_xx, vis_yy>>, <<vis_yy, vis_xx>>, <<>>}

(* q with the files of o put in after its first k files (at its end when   *)
(* q has fewer)                                                            *)
InsertAt(q, o, k) ==
    LET n == IF k > Len(q) THEN Len(q) ELSE k
    IN  SubSeq(q, 1, n) \o o \o SubSeq(q, n + 1, Len(q))

ObsRAs == {0, 1}

InputsObs ==
    {With(DefaultInputs,
          [filelist |-> <<f_params>> \o InsertAt(q, o, k) \o <<f_flags>>,
           read_data |-> rd,
           obs |-> [src \in ObsSources |->
                       With(ObsDefault,
                            [OBSRA |-> IF src = "obs" THEN ra_obs
                                       ELSE IF src = "xx" THEN ra_xx ELSE ra_yy])]]) :
        q \in DataFileLists, o \in ObsFileLists, k \in 0..1, rd \in BOOLEAN,
        ra_obs \in ObsRAs, ra_xx \in ObsRAs, ra_yy \in ObsRAs}

InitObs == InitWith(InputsObs)

SpecObs == InitObs /\ [][Next]_vars

(* the places of filelist that hold a recognized data file *)
DataPlaces ==
    {i \in DOMAIN inp.filelist : RoleOf(inp.filelist[i], inp.use_model) \in Pols}

(* the polarization of the data file that comes last in filelist *)
LastDataPol == RoleOf(inp.filelist[MaxOf(DataPlaces)], inp.use_model)

(* the obs structure the metadata must come from *)
MetadataObs == IF inp.read_data THEN inp.obs[LastDataPol] ELSE inp.obs["obs"]

ObsFromItsSource ==
    /\ this_obs # None => this_obs = MetadataObs
    /\ self.phase_center_ra_degrees # None =>
          self.phase_center_ra_degrees = Some(MetadataObs.OBSRA)
    /\ self.Ntimes # None => self.Ntimes = Some(MetadataObs.N_TIME)

(* C30 as stated: with read_data the obs structure and the metadata come   *)
(* from the data file that is last in filelist, and the listed obs files   *)
(* have no part in the outcome, so that no exception comes from them;      *)
(* without read_data they come from the listed obs file.                   *)
C30_ObsFilesNeverConsulted ==
    /\ ObsFromItsSource
    /\ inp.read_data => exc # MultipleMsg("obs")

(* C30: with read_data the obs structure and the metadata come from the    *)
(* data file that is last in filelist among the recognized data files,     *)
(* whatever the one listed obs file holds and whether it is listed or not; *)
(* without read_data they come from the listed obs file; a second obs file *)
(* in filelist raises "multiple obs files in filelist" with read_data and  *)
(* without, and nothing else about the obs files raises with read_data.    *)
C30_ObsSource ==
    /\ ObsFromItsSource
    /\ exc = MultipleMsg("obs") <=> (Duplicated("obs") /\ pc = "raised")
    /\ (inp.read_data /\ ~Duplicated("obs") /\ DataPlaces # {}) => pc # "raised"

(* a read with read_data of yy and then xx, whose obs structures differ    *)
(* from each other and the one of xx from that of the listed obs file: the *)
(* metadata is that of xx                                                  *)
C30_Witness ==
    /\ pc = "done"
    /\ inp.read_data
    /\ inp.filelist = <<f_params, vis_yy, f_obs, vis_xx, f_flags>>
    /\ inp.obs["xx"].OBSRA = 1
    /\ inp.obs["yy"].OBSRA = 0
    /\ inp.obs["obs"].OBSRA = 0
    /\ this_obs = inp.obs["xx"]
    /\ self.phase_center_ra_degrees = Some(1)

====
